---------------------------- MODULE Spec2Model ----------------------------
(***************************************************************************)
(* Finance pipeline of the SARA server (src/server/app.py): free text is   *)
(* parsed into a transaction (external extraction call, local fallback,    *)
(* keyword normalisation), validated, stored in the transactions table,    *)
(* and later listed, summarised against the monthly budget, or deleted.    *)
(*                                                                         *)
(* Encoding.  A Python str is a tuple of one-character strings.  A Python  *)
(* or JSON value is a record [t, s, n]: t is the type tag, s the           *)
(* characters of a str, n the number.  Numbers that are amounts are        *)
(* counted in mills (thousandths of a currency unit), so 7.0 is 7000 and   *)
(* 0.004 is 4.  A dict with the six transaction keys is a record whose     *)
(* missing keys hold Absent.                                               *)
(***************************************************************************)
EXTENDS Integers, Sequences, FiniteSets, TLC

----------------------------------------------------------------------------
(* Bounds of the model *)

MaxWords == 2      \* words per request text
MaxRows  == 2      \* rows inserted by this process in one behaviour
MaxClock == 3      \* ticks the UTC clock advances
MaxSeed  == 3      \* rows of a seeded store
MaxMills == 600    \* largest amount of the amount sweep, in mills
MaxConvs == 2      \* conversations created in one behaviour
MaxMsgs  == 3      \* messages inserted in one behaviour
MaxRuleWords == 3  \* words per text of the rule sweep

----------------------------------------------------------------------------
(* Python str operations *)

Whitespace == {" "}

\* LATIN SMALL LETTER LONG S (U+017F), named by its code point: str.lower()
\* leaves it as it is and str.upper() gives "S"
c_long_s == "U+017F"

RECURSIVE lstrip(_)
lstrip(s) ==
  IF s # <<>> /\ Head(s) \in Whitespace THEN lstrip(Tail(s)) ELSE s

RECURSIVE rstrip(_)
rstrip(s) ==
  IF s # <<>> /\ s[Len(s)] \in Whitespace
    THEN rstrip(SubSeq(s, 1, Len(s) - 1))
    ELSE s

strip(s) == rstrip(lstrip(s))

lower_char(c) ==
  CASE c = "A" -> "a"
    [] c = "B" -> "b"
    [] c = "C" -> "c"
    [] c = "D" -> "d"
    [] c = "E" -> "e"
    [] c = "F" -> "f"
    [] c = "G" -> "g"
    [] c = "H" -> "h"
    [] c = "I" -> "i"
    [] c = "J" -> "j"
    [] c = "K" -> "k"
    [] c = "L" -> "l"
    [] c = "M" -> "m"
    [] c = "N" -> "n"
    [] c = "O" -> "o"
    [] c = "P" -> "p"
    [] c = "Q" -> "q"
    [] c = "R" -> "r"
    [] c = "S" -> "s"
    [] c = "T" -> "t"
    [] c = "U" -> "u"
    [] c = "V" -> "v"
    [] c = "W" -> "w"
    [] c = "X" -> "x"
    [] c = "Y" -> "y"
    [] c = "Z" -> "z"
    [] OTHER -> c

lower(s) == [i \in 1..Len(s) |-> lower_char(s[i])]

upper_char(c) ==
  CASE c = "a" -> "A"
    [] c = "b" -> "B"
    [] c = "c" -> "C"
    [] c = "d" -> "D"
    [] c = "e" -> "E"
    [] c = "f" -> "F"
    [] c = "g" -> "G"
    [] c = "h" -> "H"
    [] c = "i" -> "I"
    [] c = "j" -> "J"
    [] c = "k" -> "K"
    [] c = "l" -> "L"
    [] c = "m" -> "M"
    [] c = "n" -> "N"
    [] c = "o" -> "O"
    [] c = "p" -> "P"
    [] c = "q" -> "Q"
    [] c = "r" -> "R"
    [] c = "s" -> "S"
    [] c = "t" -> "T"
    [] c = "u" -> "U"
    [] c = "v" -> "V"
    [] c = "w" -> "W"
    [] c = "x" -> "X"
    [] c = "y" -> "Y"
    [] c = "z" -> "Z"
    [] c = c_long_s -> "S"
    [] OTHER -> c

upper(s) == [i \in 1..Len(s) |-> upper_char(s[i])]

\* s.replace(old, new) for one-character old and new
replace(s, old, new) == [i \in 1..Len(s) |-> IF s[i] = old THEN new ELSE s[i]]

\* s.split(): the maximal runs of non-whitespace characters, in order
RECURSIVE split_from(_, _, _)
split_from(s, i, cur) ==
  IF i > Len(s)
    THEN (IF cur = <<>> THEN <<>> ELSE <<cur>>)
    ELSE IF s[i] \in Whitespace
      THEN (IF cur = <<>> THEN <<>> ELSE <<cur>>) \o split_from(s, i + 1, <<>>)
      ELSE split_from(s, i + 1, Append(cur, s[i]))

split(s) == split_from(s, 1, <<>>)

\* k in s
contains(s, k) ==
  \E i \in 1..(Len(s) - Len(k) + 1) : SubSeq(s, i, i + Len(k) - 1) = k

any_in(keywords, s) == \E k \in keywords : contains(s, k)

----------------------------------------------------------------------------
(* Python values *)

Absent   == [t |-> "absent", s |-> <<>>, n |-> 0]   \* key not in the dict
JNull    == [t |-> "null",   s |-> <<>>, n |-> 0]   \* None
JNaN     == [t |-> "nan",    s |-> <<>>, n |-> 0]   \* float('nan')
JStr(s)  == [t |-> "str",    s |-> s,    n |-> 0]
JNum(m)  == [t |-> "num",    s |-> <<>>, n |-> m]   \* m mills
JBool(b) == [t |-> "bool",   s |-> <<>>, n |-> IF b THEN 1 ELSE 0]
JList(k) == [t |-> "list",   s |-> <<>>, n |-> k]   \* a list of k elements
JIso(c)  == [t |-> "iso",    s |-> <<>>, n |-> c]   \* str: ISO timestamp of tick c

\* bool(v)
truthy(v) ==
  CASE v.t = "str"  -> v.s # <<>>
    [] v.t = "num"  -> v.n # 0
    [] v.t = "bool" -> v.n # 0
    [] v.t = "list" -> v.n # 0
    [] v.t = "nan"  -> TRUE
    [] v.t = "iso"  -> TRUE
    [] OTHER        -> FALSE

digit_char(d) ==
  CASE d = 0 -> "0" [] d = 1 -> "1" [] d = 2 -> "2" [] d = 3 -> "3"
    [] d = 4 -> "4" [] d = 5 -> "5" [] d = 6 -> "6" [] d = 7 -> "7"
    [] d = 8 -> "8" [] d = 9 -> "9"

RECURSIVE digits_of(_)
digits_of(k) ==
  IF k < 10 THEN <<digit_char(k)>>
  ELSE Append(digits_of(k \div 10), digit_char(k % 10))

\* the decimals of f thousandths, trailing zeros dropped
frac_digits(f) ==
  IF f % 100 = 0 THEN <<digit_char(f \div 100)>>
  ELSE IF f % 10 = 0 THEN <<digit_char(f \div 100), digit_char((f \div 10) % 10)>>
  ELSE <<digit_char(f \div 100), digit_char((f \div 10) % 10), digit_char(f % 10)>>

\* str(v); a whole number stands for a JSON integer ("7"), any other
\* number for a float ("0.004")
py_str(v) ==
  CASE v.t = "str"  -> v.s
    [] v.t = "null" -> <<"N", "o", "n", "e">>
    [] v.t = "nan"  -> <<"n", "a", "n">>
    [] v.t = "bool" -> IF v.n # 0 THEN <<"T", "r", "u", "e">>
                                  ELSE <<"F", "a", "l", "s", "e">>
    [] v.t = "list" -> IF v.n = 0 THEN <<"[", "]">> ELSE <<"[", ".", "]">>
    [] v.t = "num"  ->
         LET a == IF v.n < 0 THEN 0 - v.n ELSE v.n
             sign == IF v.n < 0 THEN <<"-">> ELSE <<>>
         IN  IF a % 1000 = 0
               THEN sign \o digits_of(a \div 1000)
               ELSE sign \o digits_of(a \div 1000) \o <<".">> \o frac_digits(a % 1000)
    [] OTHER        -> <<>>

Digits == {"0", "1", "2", "3", "4", "5", "6", "7", "8", "9"}

digit_val(c) ==
  CASE c = "0" -> 0 [] c = "1" -> 1 [] c = "2" -> 2 [] c = "3" -> 3
    [] c = "4" -> 4 [] c = "5" -> 5 [] c = "6" -> 6 [] c = "7" -> 7
    [] c = "8" -> 8 [] c = "9" -> 9

RECURSIVE int_of(_)
int_of(ds) ==
  IF ds = <<>> THEN 0
  ELSE 10 * int_of(SubSeq(ds, 1, Len(ds) - 1)) + digit_val(ds[Len(ds)])

all_digits(ds) == \A i \in 1..Len(ds) : ds[i] \in Digits

\* float(s) for a str: [ok, v].  The grammar is [sign] digits [. digits] or
\* [sign] . digits, surrounding whitespace ignored, and the words nan
\* in any letter case; at most three decimals are kept (mills).
float_of_str(s0) ==
  LET s     == strip(s0)
      neg   == s # <<>> /\ Head(s) = "-"
      u     == IF s # <<>> /\ Head(s) \in {"-", "+"} THEN Tail(s) ELSE s
      dots  == {i \in 1..Len(u) : u[i] = "."}
      ip    == IF dots = {} THEN u
               ELSE SubSeq(u, 1, (CHOOSE i \in dots : TRUE) - 1)
      fp    == IF dots = {} THEN <<>>
               ELSE SubSeq(u, (CHOOSE i \in dots : TRUE) + 1, Len(u))
      fp3   == SubSeq(fp \o <<"0", "0", "0">>, 1, 3)
      wellf == /\ Cardinality(dots) <= 1
               /\ all_digits(ip) /\ all_digits(fp)
               /\ Len(ip) + Len(fp) >= 1
               /\ Len(fp) <= 3
      mag   == 1000 * int_of(ip) + int_of(fp3)
  IN  IF lower(u) = <<"n", "a", "n">> THEN [ok |-> TRUE, v |-> JNaN]
      ELSE IF wellf THEN [ok |-> TRUE, v |-> JNum(IF neg THEN 0 - mag ELSE mag)]
      ELSE [ok |-> FALSE, v |-> JNum(0)]

\* float(v): [ok, v]; ok = FALSE is the TypeError / ValueError
py_float(v) ==
  CASE v.t = "num"  -> [ok |-> TRUE, v |-> v]
    [] v.t = "nan"  -> [ok |-> TRUE, v |-> v]
    [] v.t = "bool" -> [ok |-> TRUE, v |-> JNum(1000 * v.n)]
    [] v.t = "str"  -> float_of_str(v.s)
    [] OTHER        -> [ok |-> FALSE, v |-> JNum(0)]

----------------------------------------------------------------------------
(* Keyword tables of _parse_transaction_input *)

coffee_keywords ==
  { <<"c", "o", "f", "f", "e", "e">>,
    <<"l", "a", "t", "t", "e">>,
    <<"e", "s", "p", "r", "e", "s", "s", "o">>,
    <<"c", "o", "r", "t", "a", "d", "o">>,
    <<"a", "m", "e", "r", "i", "c", "a", "n", "o">>,
    <<"f", "l", "a", "t", " ", "w", "h", "i", "t", "e">>,
    <<"c", "o", "l", "d", " ", "b", "r", "e", "w">>,
    <<"d", "r", "i", "p">>,
    <<"b", "r", "e", "w">> }

transport_keywords ==
  { <<"u", "b", "e", "r">>,
    <<"l", "y", "f", "t">>,
    <<"t", "a", "x", "i">>,
    <<"c", "a", "b">>,
    <<"m", "t", "a">>,
    <<"s", "u", "b", "w", "a", "y">>,
    <<"t", "r", "a", "i", "n">>,
    <<"b", "u", "s">>,
    <<"m", "e", "t", "r", "o">>,
    <<"r", "i", "d", "e">> }

grocery_keywords ==
  { <<"g", "r", "o", "c", "e", "r", "y">>,
    <<"g", "r", "o", "c", "e", "r", "i", "e", "s">>,
    <<"s", "u", "p", "e", "r", "m", "a", "r", "k", "e", "t">>,
    <<"w", "h", "o", "l", "e", " ", "f", "o", "o", "d", "s">>,
    <<"t", "r", "a", "d", "e", "r", " ", "j", "o", "e">>,
    <<"b", "o", "d", "e", "g", "a">>,
    <<"m", "a", "r", "k", "e", "t">> }

subscription_keywords ==
  { <<"s", "p", "o", "t", "i", "f", "y">>,
    <<"n", "e", "t", "f", "l", "i", "x">>,
    <<"a", "p", "p", "l", "e", " ", "m", "u", "s", "i", "c">>,
    <<"i", "c", "l", "o", "u", "d">>,
    <<"a", "d", "o", "b", "e">>,
    <<"n", "o", "t", "i", "o", "n">>,
    <<"m", "u", "b", "i">>,
    <<"h", "b", "o">>,
    <<"m", "a", "x">>,
    <<"y", "o", "u", "t", "u", "b", "e", " ", "p", "r", "e", "m", "i", "u", "m">> }

rent_keywords ==
  { <<"r", "e", "n", "t">>,
    <<"l", "a", "n", "d", "l", "o", "r", "d">>,
    <<"a", "p", "a", "r", "t", "m", "e", "n", "t">>,
    <<"r", "o", "o", "m">> }

college_keywords ==
  { <<"t", "u", "i", "t", "i", "o", "n">>,
    <<"p", "r", "a", "t", "t">>,
    <<"c", "o", "u", "r", "s", "e">>,
    <<"c", "l", "a", "s", "s">>,
    <<"c", "o", "l", "l", "e", "g", "e">>,
    <<"r", "e", "g", "i", "s", "t", "r", "a", "t", "i", "o", "n">> }

food_keywords ==
  { <<"b", "u", "r", "g", "e", "r">>,
    <<"p", "i", "z", "z", "a">>,
    <<"t", "a", "c", "o">>,
    <<"t", "a", "c", "o", "s">>,
    <<"s", "u", "s", "h", "i">>,
    <<"r", "a", "m", "e", "n">>,
    <<"d", "i", "n", "n", "e", "r">>,
    <<"l", "u", "n", "c", "h">>,
    <<"b", "r", "e", "a", "k", "f", "a", "s", "t">>,
    <<"t", "a", "k", "e", "o", "u", "t">>,
    <<"d", "e", "l", "i", "v", "e", "r", "y">> }

(* String constants of the source *)

s_USD == <<"U", "S", "D">>
s_other == <<"o", "t", "h", "e", "r">>
s_coffee == <<"c", "o", "f", "f", "e", "e">>
s_food == <<"f", "o", "o", "d">>
s_groceries == <<"g", "r", "o", "c", "e", "r", "i", "e", "s">>
s_transport == <<"t", "r", "a", "n", "s", "p", "o", "r", "t">>
s_subscriptions == <<"s", "u", "b", "s", "c", "r", "i", "p", "t", "i", "o", "n", "s">>
s_shopping == <<"s", "h", "o", "p", "p", "i", "n", "g">>
s_bills == <<"b", "i", "l", "l", "s">>
s_rent == <<"r", "e", "n", "t">>
s_college == <<"c", "o", "l", "l", "e", "g", "e">>
s_fun == <<"f", "u", "n">>
s_unknown == <<"u", "n", "k", "n", "o", "w", "n">>
s_default == <<"d", "e", "f", "a", "u", "l", "t">>

\* MONTHLY_BUDGET_BY_CATEGORY, in cents
MONTHLY_BUDGET_BY_CATEGORY ==
  [c \in { s_coffee, s_food, s_groceries, s_transport, s_subscriptions,
           s_rent, s_college, s_fun, s_other } |->
     CASE c = s_coffee        -> 10000
       [] c = s_food          -> 30000
       [] c = s_groceries     -> 20000
       [] c = s_transport     -> 15000
       [] c = s_subscriptions -> 11000
       [] c = s_rent          -> 87500
       [] c = s_college       -> 15000
       [] c = s_fun           -> 10000
       [] c = s_other         -> 15000]

----------------------------------------------------------------------------
(* _parse_transaction_input *)

\* The outcome of the external extraction call followed by json.loads:
\*   kind "error"  - the call or json.loads raised
\*   kind "value"  - json.loads returned v, a JSON value that is not an object
\*   kind "object" - json.loads returned the dict data
EmptyDict ==
  [amount |-> Absent, currency |-> Absent, merchant |-> Absent,
   category |-> Absent, created_at_iso |-> Absent, notes |-> Absent]

ExtError     == [kind |-> "error",  v |-> JNull, data |-> EmptyDict]
ExtValue(v)  == [kind |-> "value",  v |-> v,     data |-> EmptyDict]
ExtObject(d) == [kind |-> "object", v |-> JNull, data |-> d]

\* the loop of the except branch: the first token float() accepts, else 0.0
RECURSIVE first_number(_)
first_number(tokens) ==
  IF tokens = <<>> THEN JNum(0)
  ELSE IF float_of_str(Head(tokens)).ok THEN float_of_str(Head(tokens)).v
  ELSE first_number(Tail(tokens))

\* variant of the tokens: user_text.split()
fallback_tokens_plain(user_text) == split(user_text)

\* tokens = user_text.replace("$", " ").split()
fallback_tokens(user_text) == split(replace(user_text, "$", " "))

\* the dict built by the except branch
fallback_data(user_text, now) ==
  LET amount == first_number(fallback_tokens(user_text))
  IN  [amount         |-> IF truthy(amount) THEN amount ELSE JNum(0),
       currency       |-> JStr(s_USD),
       merchant       |-> JStr(<<>>),
       category       |-> JStr(s_other),
       created_at_iso |-> JIso(now),
       notes          |-> JStr(<<>>)]

\* "Hard fallbacks / normalization from the model"
hard_fallbacks(data, now) ==
  [amount         |-> IF data.amount = Absent THEN JNum(0) ELSE data.amount,
   currency       |-> IF data.currency = Absent \/ ~truthy(data.currency)
                        THEN JStr(s_USD) ELSE data.currency,
   merchant       |-> data.merchant,
   category       |-> IF data.category = Absent \/ ~truthy(data.category)
                        THEN JStr(s_other) ELSE data.category,
   created_at_iso |-> IF data.created_at_iso = Absent \/ ~truthy(data.created_at_iso)
                        THEN JIso(now) ELSE data.created_at_iso,
   notes          |-> IF data.notes = Absent THEN JStr(<<>>) ELSE data.notes]

\* variant of the food rule: no guard
food_guard_none(category) == TRUE

\* the food rule's guard: data.get("category") not in ("coffee", "groceries")
food_guard(category) == category \notin {JStr(s_coffee), JStr(s_groceries)}

\* text_lower = user_text.lower()
lowered_text(user_text) == lower(user_text)

\* variant of the rules: the transport rule before the coffee rule
keyword_rules_swapped(category, user_text) ==
  LET text_lower == lowered_text(user_text)
      c1 == IF any_in(transport_keywords, text_lower) THEN JStr(s_transport) ELSE category
      c2 == IF any_in(coffee_keywords, text_lower) THEN JStr(s_coffee) ELSE c1
      c3 == IF any_in(grocery_keywords, text_lower) THEN JStr(s_groceries) ELSE c2
      c4 == IF any_in(subscription_keywords, text_lower) THEN JStr(s_subscriptions) ELSE c3
      c5 == IF any_in(rent_keywords, text_lower) THEN JStr(s_rent) ELSE c4
      c6 == IF any_in(college_keywords, text_lower) THEN JStr(s_college) ELSE c5
  IN  IF any_in(food_keywords, text_lower) /\ food_guard(c6) THEN JStr(s_food) ELSE c6

\* the keyword rules, in the order of the source
keyword_rules(category, user_text) ==
  LET text_lower == lowered_text(user_text)
      c1 == IF any_in(coffee_keywords, text_lower) THEN JStr(s_coffee) ELSE category
      c2 == IF any_in(transport_keywords, text_lower) THEN JStr(s_transport) ELSE c1
      c3 == IF any_in(grocery_keywords, text_lower) THEN JStr(s_groceries) ELSE c2
      c4 == IF any_in(subscription_keywords, text_lower) THEN JStr(s_subscriptions) ELSE c3
      c5 == IF any_in(rent_keywords, text_lower) THEN JStr(s_rent) ELSE c4
      c6 == IF any_in(college_keywords, text_lower) THEN JStr(s_college) ELSE c5
  IN  IF any_in(food_keywords, text_lower) /\ food_guard(c6) THEN JStr(s_food) ELSE c6

\* "Merchant fallback: never leave it empty":
\* if not str(data.get("merchant", "")).strip(): data["merchant"] = "unknown"
merchant_fallback(merchant) ==
  LET got == IF merchant = Absent THEN JStr(<<>>) ELSE merchant
  IN  IF strip(py_str(got)) = <<>> THEN JStr(s_unknown) ELSE merchant

\* [called, raised, data]: raised is an exception leaving the function.  A JSON value
\* that is not a dict makes the first membership test or item assignment of
\* the hard fallbacks raise TypeError outside the try block.
parse_transaction_input(user_text, ext, now) ==
  IF ext.kind = "value" THEN [called |-> TRUE, raised |-> TRUE, data |-> EmptyDict]
  ELSE
    LET d0 == IF ext.kind = "error" THEN fallback_data(user_text, now) ELSE ext.data
        d1 == hard_fallbacks(d0, now)
    IN  [called |-> TRUE, raised |-> FALSE,
         data   |-> [d1 EXCEPT !.category = keyword_rules(d1.category, user_text),
                               !.merchant = merchant_fallback(d1.merchant)]]

----------------------------------------------------------------------------
(* Time *)

\* A tick is the resolution of a timestamp.  The calendar is shortened: a
\* day has TicksPerDay ticks and every month DaysPerMonth days.  Tick 0 is
\* 00:00 of the last day of December 2024, so that the first ticks cross a
\* day, a month and a year.  A timestamp is the tick of its wall-clock
\* fields; ISO strings of equal layout compare as their ticks do.
TicksPerDay  == 3
DaysPerMonth == 2

TicksPerMonth == TicksPerDay * DaysPerMonth
EpochTicks    == TicksPerDay * (DaysPerMonth - 1)   \* ticks of December before tick 0
EpochMonth    == 2024 * 12 + 11                     \* December 2024 as year * 12 + (month - 1)

month_index(t) == EpochMonth + ((t + EpochTicks) \div TicksPerMonth)
year_of(t)     == month_index(t) \div 12
month_of(t)    == (month_index(t) % 12) + 1

\* datetime(year, month, 1)
first_of_month(year, month) ==
  ((year * 12 + (month - 1)) - EpochMonth) * TicksPerMonth - EpochTicks

\* first day of next month
next_month_start(year, month) ==
  IF month = 12 THEN first_of_month(year + 1, 1)
  ELSE first_of_month(year, month + 1)

\* datetime.combine(today, datetime.min.time()) / datetime.max.time()
day_start(t) == ((t + EpochTicks) \div TicksPerDay) * TicksPerDay - EpochTicks
day_end(t)   == day_start(t) + TicksPerDay - 1

\* SQL text comparison of a stored created_at (UTC isoformat, which ends in
\* "+00:00") with a naive isoformat bound.  At equal wall-clock fields the
\* bound is a proper prefix of created_at, so created_at is the greater.
created_ge(created_at, bound) == created_at >= bound
created_lt_inclusive(created_at, bound) == created_at <= bound   \* variant: "<="
created_lt(created_at, bound) == created_at < bound
created_le(created_at, bound) == created_at < bound

----------------------------------------------------------------------------
(* State *)

VARIABLES
  store,    \* the rows of table transactions
  nextId,   \* the AUTOINCREMENT sequence: the id of the next inserted row
  clock,    \* the current UTC time, in ticks
  tz,       \* local time minus UTC of the machine, in ticks
  req,      \* the last request
  parsed,   \* api_finance_log's local variable parsed in that request
  resp,     \* the response to that request
  inflight, \* the api_finance_log requests served step by step in worker threads
  writer,   \* the request whose connection holds the database write lock, or 0
  reflections,   \* the number of rows of table reflections
  conversations, \* the rows of table conversations
  convSeq,       \* its AUTOINCREMENT sequence
  messages,      \* the rows of table messages
  msgSeq,        \* its AUTOINCREMENT sequence
  reading,       \* the summary requests served step by step in worker threads
  config,        \* ENFORCE_API_KEY, API_KEY and OPENAI_API_KEY of the process
  authorization  \* the Authorization header the client sends with its requests

chat == <<conversations, convSeq, messages, msgSeq>>

vars == <<store, nextId, clock, tz, req, parsed, resp, inflight, writer, reflections,
          chat, reading, config, authorization>>

\* the summary requests served step by step, and one that has not started
Readers == {1}
NotReading ==
  [pc |-> "idle", op |-> "none", rows |-> {}, year |-> 0, month |-> 0, now |-> 0,
   resp |-> [status |-> 0, kind |-> "none", body |-> <<>>]]

s_sk == <<"s", "k">>

\* the environment of a deployment without API_KEY: ENFORCE_API_KEY
\* defaults to "true", API_KEY to "", and OPENAI_API_KEY is set
OpenConfig == [enforce |-> TRUE, api_key |-> <<>>, openai_key |-> s_sk]

\* an int query parameter; JNull when the parameter is left out
JInt(k) == [t |-> "int", s |-> <<>>, n |-> k]

s_tired   == <<"t", "i", "r", "e", "d">>
s_foreign == <<"g", "u", "e", "s", "t">>

\* a request: the handler, and the payload, path and query parameters it
\* takes (the others are left at their defaults); ext is the outcome of the
\* extraction call made while the request is served
Request(op, text, emotion, ext, id, year, month) ==
  [op |-> op, text |-> text, emotion |-> emotion, ext |-> ext,
   id |-> id, year |-> year, month |-> month]

NoRequest == Request("none", Absent, Absent, ExtError, 0, JNull, JNull)

\* parsed before _parse_transaction_input is called
NoParse == [called |-> FALSE, raised |-> FALSE, data |-> EmptyDict]

\* kind "error" carries the detail of the error, any other kind the JSON body
Response(status, kind, body) == [status |-> status, kind |-> kind, body |-> body]

NoResponse == Response(0, "none", <<>>)

\* HTTPException(status, detail) and an exception no handler catches
HTTPError(status, detail) == Response(status, "error", detail)
Unhandled == Response(500, "error", "Internal Server Error")

s_bearer == <<"B", "e", "a", "r", "e", "r", " ">>

\* s.startswith(prefix)
startswith(s, prefix) ==
  Len(s) >= Len(prefix) /\ SubSeq(s, 1, Len(prefix)) = prefix

\* s.split(" ", 1)[1] of an s that holds a space: what follows the first one
RECURSIVE after_first_space(_)
after_first_space(s) ==
  IF Head(s) = " " THEN Tail(s) ELSE after_first_space(Tail(s))

\* variant of the helper: any header that starts with "Bearer " passes
require_api_key_any_token(auth_header) ==
  IF ~config.enforce \/ config.api_key = <<>> THEN NoResponse
  ELSE IF auth_header = JNull \/ auth_header.s = <<>>
          \/ ~startswith(auth_header.s, s_bearer)
    THEN HTTPError(401, "Missing Bearer token")
  ELSE NoResponse

\* _require_api_key(auth_header): the HTTPException it raises, NoResponse
\* when it returns
require_api_key(auth_header) ==
  IF ~config.enforce \/ config.api_key = <<>> THEN NoResponse
  ELSE IF auth_header = JNull \/ auth_header.s = <<>>
          \/ ~startswith(auth_header.s, s_bearer)
    THEN HTTPError(401, "Missing Bearer token")
  ELSE IF strip(after_first_space(auth_header.s)) # config.api_key
    THEN HTTPError(403, "Invalid API key")
  ELSE NoResponse

\* a handler whose first statement is _require_api_key(authorization): the
\* exception is the response and the rest of the handler does not run
with_api_key(request, handler) ==
  IF require_api_key(authorization) = NoResponse
    THEN handler
    ELSE /\ req' = request
         /\ resp' = require_api_key(authorization)
         /\ parsed' = NoParse
         /\ UNCHANGED <<store, nextId, clock, tz, inflight, writer, reflections,
                        chat, reading, config, authorization>>

local_now == clock + tz

\* rows of the default user, the only user_id the handlers read and write
RowsOfUser(rows) == {r \in rows : r.user_id = s_default}

\* sum(f.values()) for a dict f of integers
RECURSIVE sum_values(_)
sum_values(f) ==
  IF DOMAIN f = {} THEN 0
  ELSE LET k == CHOOSE x \in DOMAIN f : TRUE
       IN  f[k] + sum_values([x \in DOMAIN f \ {k} |-> f[x]])

\* the sum of amount_cents over a set of rows
RECURSIVE sum_cents(_)
sum_cents(rows) ==
  IF rows = {} THEN 0
  ELSE LET r == CHOOSE x \in rows : TRUE
       IN  r.amount_cents + sum_cents(rows \ {r})

----------------------------------------------------------------------------
(* api_finance_log *)

\* (v or default).strip(): [raised, s].  A true value that is not a str has
\* no strip() and raises AttributeError.
or_strip(v, default) ==
  IF v = Absent \/ ~truthy(v) THEN [raised |-> FALSE, s |-> strip(default)]
  ELSE IF v.t = "str" THEN [raised |-> FALSE, s |-> strip(v.s)]
  ELSE [raised |-> TRUE, s |-> <<>>]

\* x or None, for a str x
or_none(s) == IF s = <<>> THEN JNull ELSE JStr(s)

\* try: amount = float(parsed.get("amount", 0.0)) / except: amount = 0.0
resolved_amount(data) ==
  LET a == IF data.amount = Absent THEN JNum(0) ELSE data.amount
  IN  IF py_float(a).ok THEN py_float(a).v ELSE JNum(0)

\* variant of the guard: "if amount < 0"
amount_rejected_strict(amount) == amount.t = "num" /\ amount.n < 0

\* the guard "if amount <= 0"; every comparison with nan is false
amount_rejected(amount) == amount.t = "num" /\ amount.n <= 0

\* The amounts of m mills below 13.000 that lie halfway between two cents
\* and whose binary product amount * 100 falls on the side of the odd cent
\* (0.545 * 100 is 54.50000000000001); the product of every other halfway
\* amount below 13.000 is exactly or rounds to x.5
OddTies ==
  { 545, 575, 1015, 1035, 1225, 1245, 1255, 1275, 2135, 2155, 2175, 2195,
    2305, 2325, 2345, 2365, 4015, 4025, 4065, 4105, 4395, 4435, 4475, 4485,
    4515, 4525, 4565, 4605, 4895, 4935, 4975, 4985, 5015, 5025, 5065, 5105,
    8005, 8075, 8085, 8155, 8345, 8415, 8425, 8495, 8505, 8575, 8585, 8655,
    8845, 8915, 8925, 8995, 9005, 9075, 9085, 9155, 9345, 9415, 9425, 9495,
    9505, 9575, 9585, 9655, 9845, 9915, 9925, 9995, 10005, 10075, 10085, 10155 }

\* variant of the conversion: int(amount * 100)
round_cents_truncating(m) == m \div 10

\* int(round(amount * 100)) for a finite amount >= 0 of m mills below
\* 13.000: the nearest integer to the binary product, an exact x.5 going
\* to the even one
round_cents(m) ==
  LET q == m \div 10
      r == m % 10
  IN  IF r < 5 THEN q
      ELSE IF r > 5 THEN q + 1
      ELSE IF (q % 2 = 0) = (m \notin OddTies) THEN q ELSE q + 1

\* variant of the stamp: the date of the parsed record
created_at_stamp_parsed(data, now) ==
  IF data.created_at_iso.t = "iso" THEN data.created_at_iso.n ELSE now

\* "FORCE current timestamp instead of model date"
created_at_stamp(data, now) == now

\* the dict returned by api_finance_log and the items of the listings;
\* amount is amount_cents / 100.0, kept as the number of hundredths
record_of(row) ==
  [id         |-> row.id,
   created_at |-> row.created_at,
   amount     |-> row.amount_cents,
   currency   |-> row.currency,
   merchant   |-> row.merchant,
   category   |-> row.category,
   raw_input  |-> row.raw_input,
   emotion    |-> row.emotion,
   notes      |-> row.notes]

InvalidAmount ==
  HTTPError(400, "I couldn't see a positive amount in that. Try something like: 'record $7 latte at Blue Bottle'.")

\* the values bound by INSERT INTO transactions
inserted_row(id, now, text, emotion, data, amount, currency, merchant, category, notes) ==
  [id           |-> id,
   user_id      |-> s_default,
   created_at   |-> created_at_stamp(data, now),
   amount_cents |-> round_cents(amount.n),
   currency     |-> currency,
   merchant     |-> or_none(merchant),
   raw_input    |-> text,
   category     |-> IF category = <<>> THEN s_other ELSE category,
   emotion      |-> or_none(emotion),
   notes        |-> or_none(notes)]

\* the INSERT and the record returned
log_inserted(p, row) ==
  [resp |-> Response(200, "record", record_of(row)), rows |-> {row}, parsed |-> p]

\* from the guard on the amount to the INSERT
log_validated(text, emotion, p, amount, merchant, category, notes, now, id) ==
  IF amount_rejected(amount)
    THEN [resp |-> InvalidAmount, rows |-> {}, parsed |-> p]
  ELSE IF amount.t = "nan" \/ merchant.raised \/ category.raised \/ notes.raised
    \* round(nan) raises ValueError; strip() of a non-str raises
    THEN [resp |-> Unhandled, rows |-> {}, parsed |-> p]
  ELSE log_inserted(p, inserted_row(id, now, text, emotion, p.data, amount,
                                    upper(py_str(p.data.currency)),
                                    merchant.s, category.s, notes.s))

\* after the call of _parse_transaction_input
log_parsed(text, emotion, p, now, id) ==
  IF p.raised
    THEN [resp |-> HTTPError(500, "parse error"), rows |-> {}, parsed |-> p]
  ELSE log_validated(text, emotion, p,
                     resolved_amount(p.data),
                     or_strip(p.data.merchant, <<>>),
                     or_strip(p.data.category, s_other),
                     or_strip(p.data.notes, <<>>),
                     now, id)

\* after text and emotion are read from the payload
log_payload(text, emotion, ext, now, id) ==
  IF text.raised THEN [resp |-> Unhandled, rows |-> {}, parsed |-> NoParse]
  ELSE IF text.s = <<>>
    THEN [resp |-> HTTPError(400, "text required"), rows |-> {}, parsed |-> NoParse]
  ELSE IF emotion.raised THEN [resp |-> Unhandled, rows |-> {}, parsed |-> NoParse]
  ELSE log_parsed(text.s, emotion.s, parse_transaction_input(text.s, ext, now), now, id)

\* The handler as a function of its inputs: the response, the rows it
\* inserts and its local variable parsed.
finance_log(text_v, emotion_v, ext, now, id) ==
  log_payload(or_strip(text_v, <<>>), or_strip(emotion_v, <<>>), ext, now, id)

\* INSERT INTO transactions ...
insert_rows(rows, new) == rows \cup new

\* variant of the id: INTEGER PRIMARY KEY without AUTOINCREMENT, one more
\* than the largest id in the table
next_rowid_reusing(rows, seq) ==
  IF rows = {} THEN 1
  ELSE (CHOOSE i \in {r.id : r \in rows} : \A r \in rows : r.id <= i) + 1

\* id INTEGER PRIMARY KEY AUTOINCREMENT: one more than the largest id the
\* table ever held, which is the value seq of the sequence
next_rowid(rows, seq) == seq

\* the handler's effect, o being the outcome of finance_log
log_effect(text_v, emotion_v, ext, o) ==
  /\ req' = Request("log", text_v, emotion_v, ext, 0, JNull, JNull)
  /\ store' = insert_rows(store, o.rows)
  /\ nextId' = IF o.rows = {} THEN nextId ELSE nextId + 1
  /\ parsed' = o.parsed
  /\ resp' = o.resp
  /\ UNCHANGED <<clock, tz, inflight, writer, reflections, chat, reading, config, authorization>>

api_finance_log(text_v, emotion_v, ext) ==
  with_api_key(Request("log", text_v, emotion_v, ext, 0, JNull, JNull),
      log_effect(text_v, emotion_v, ext,
                 finance_log(text_v, emotion_v, ext, clock, next_rowid(store, nextId))))

----------------------------------------------------------------------------
(* api_finance_log served by worker threads.  The handler is a plain def, *)
(* so two requests run in two threads, each with its own connection; the  *)
(* steps of one request are the statements that read or write what the    *)
(* other can see: the clock and the database.                             *)

Racers == {1, 2}

\* a request not yet received
Waiting ==
  [pc |-> "waiting", text |-> Absent, emotion |-> Absent, ext |-> ExtError,
   rows |-> {}, resp |-> NoResponse]

\* from the payload to created_at_iso: o is the outcome of the handler up
\* to the INSERT, the row still without its id
log_prepared(p, text_v, emotion_v, ext, o) ==
  /\ require_api_key(authorization) = NoResponse
  /\ inflight[p].pc = "waiting"
  /\ inflight' = [inflight EXCEPT ![p] =
       [pc      |-> IF o.rows = {} THEN "done" ELSE "ready",
        text    |-> text_v, emotion |-> emotion_v, ext |-> ext,
        rows    |-> o.rows,
        resp    |-> IF o.rows = {} THEN o.resp ELSE NoResponse]]
  /\ UNCHANGED <<store, nextId, clock, tz, req, parsed, resp, writer, reflections, chat, reading, config, authorization>>

log_prepare(p, text_v, emotion_v, ext) ==
  log_prepared(p, text_v, emotion_v, ext, finance_log(text_v, emotion_v, ext, clock, 0))

\* variant of the lock: a writer never waits
may_write_unlocked(p) == TRUE

\* SQLite admits one writer: the INSERT of a second connection waits in the
\* busy handler until the first has committed
may_write(p) == writer = 0

\* cur.execute(INSERT ...): the row gets the next id of the AUTOINCREMENT
\* sequence inside the connection's transaction
log_insert(p) ==
  /\ inflight[p].pc = "ready"
  /\ may_write(p)
  /\ writer' = p
  /\ inflight' = [inflight EXCEPT ![p].pc = "inserted",
                                  ![p].rows = {[r EXCEPT !.id = next_rowid(store, nextId)] :
                                                r \in inflight[p].rows}]
  /\ UNCHANGED <<store, nextId, clock, tz, req, parsed, resp, reflections, chat, reading, config, authorization>>

\* con.commit()
log_commit(p) ==
  /\ inflight[p].pc = "inserted"
  /\ store' = insert_rows(store, inflight[p].rows)
  /\ nextId' = nextId + 1
  /\ writer' = IF writer = p THEN 0 ELSE writer
  /\ inflight' = [inflight EXCEPT ![p].pc = "committed"]
  /\ UNCHANGED <<clock, tz, req, parsed, resp, reflections, chat, reading, config, authorization>>

\* row = SELECT * FROM transactions WHERE id = tx_id, and the dict returned;
\* row is None when no row has the id, and row["id"] then raises TypeError
log_selected(p, found) ==
  /\ inflight' = [inflight EXCEPT ![p].pc = "done",
                                  ![p].resp = IF found = {} THEN Unhandled
                                              ELSE Response(200, "record",
                                                     record_of(CHOOSE r \in found : TRUE))]
  /\ UNCHANGED <<store, nextId, clock, tz, req, parsed, resp, writer, reflections, chat, reading, config, authorization>>

log_select(p) ==
  /\ inflight[p].pc = "committed"
  /\ log_selected(p, {r \in store : \E q \in inflight[p].rows : r.id = q.id})

\* variant of a failing database call: the handler answers as though the
\* row were stored
db_error_swallowed(rows) == Response(200, "record", <<>>)

\* a database call raises (sqlite3.OperationalError): the handler has no
\* except clause for it, so it leaves the handler
db_error(rows) == Unhandled

\* _ensure_db() raises
log_ensure_raises(p, text_v, emotion_v, ext) ==
  /\ require_api_key(authorization) = NoResponse
  /\ inflight[p].pc = "waiting"
  /\ inflight' = [inflight EXCEPT ![p] =
       [pc |-> "done", text |-> text_v, emotion |-> emotion_v, ext |-> ext,
        rows |-> {}, resp |-> db_error({})]]
  /\ UNCHANGED <<store, nextId, clock, tz, req, parsed, resp, writer, reflections, chat, reading, config, authorization>>

\* sqlite3.connect, the INSERT, the commit or the SELECT raises; "finally:
\* con.close()" rolls back what the connection has not committed
log_db_raises(p) ==
  /\ inflight[p].pc \in {"ready", "inserted", "committed"}
  /\ writer' = IF writer = p THEN 0 ELSE writer
  /\ inflight' = [inflight EXCEPT ![p].pc = "done", ![p].rows = {},
                                  ![p].resp = db_error(inflight[p].rows)]
  /\ UNCHANGED <<store, nextId, clock, tz, req, parsed, resp, reflections, chat, reading, config, authorization>>

----------------------------------------------------------------------------
(* save_reflection *)

ReflectionSaved ==
  [ok |-> TRUE,
   summary |-> "Reflection saved. Money: Week-to-date: $96.30. Tomorrow: keep MITs <= 3; start with the hardest task."]

\* raises is whether _ensure_db() or _insert_reflection(text) raises; the
\* except clause passes
save_reflection(text, raises) ==
  /\ reflections < MaxRows
  /\ req' = Request("reflect", JStr(text), Absent, ExtError, 0, JNull, JNull)
  /\ reflections' = IF raises THEN reflections ELSE reflections + 1
  /\ resp' = Response(200, "reflection", ReflectionSaved)
  /\ parsed' = NoParse
  /\ UNCHANGED <<store, nextId, clock, tz, inflight, writer, chat, reading, config, authorization>>

----------------------------------------------------------------------------
(* api_finance_delete *)

\* variants of the WHERE clause: "WHERE user_id = ?" and "WHERE id = ?"
delete_matches_user(r, transaction_id) == r.user_id = s_default
delete_matches_id(r, transaction_id) == r.id = transaction_id

\* DELETE FROM transactions WHERE id = ? AND user_id = ?
delete_matches(r, transaction_id) ==
  r.id = transaction_id /\ r.user_id = s_default

api_finance_delete(transaction_id) ==
  with_api_key(Request("delete", Absent, Absent, ExtError, transaction_id, JNull, JNull),
      LET gone == {r \in store : delete_matches(r, transaction_id)}
      IN  /\ req' = Request("delete", Absent, Absent, ExtError, transaction_id, JNull, JNull)
          /\ store' = store \ gone
          /\ resp' = IF gone = {}
                       THEN HTTPError(404, "Transaction {transaction_id} not found.")
                       ELSE Response(200, "deleted",
                                     [ok |-> TRUE, deleted_id |-> transaction_id])
          /\ parsed' = NoParse
          /\ UNCHANGED <<nextId, clock, tz, inflight, writer, reflections, chat, reading, config, authorization>>)

----------------------------------------------------------------------------
(* Listings *)

\* ORDER BY created_at ASC / DESC as a list; rows of equal created_at come
\* in rowid order
RECURSIVE order_asc(_)
order_asc(rows) ==
  IF rows = {} THEN <<>>
  ELSE LET m == CHOOSE r \in rows : \A q \in rows :
                  \/ r.created_at < q.created_at
                  \/ (r.created_at = q.created_at /\ r.id <= q.id)
       IN  <<m>> \o order_asc(rows \ {m})

RECURSIVE order_desc(_)
order_desc(rows) ==
  IF rows = {} THEN <<>>
  ELSE LET m == CHOOSE r \in rows : \A q \in rows :
                  \/ r.created_at > q.created_at
                  \/ (r.created_at = q.created_at /\ r.id <= q.id)
       IN  <<m>> \o order_desc(rows \ {m})

items_of(ordered) == [i \in 1..Len(ordered) |-> record_of(ordered[i])]

\* variant of the default: the year of datetime.now() whatever was asked
year_or_now_ignored(year) == year_of(local_now)

\* year / month default to those of datetime.now()
year_or_now(year)   == IF year = JNull THEN year_of(local_now) ELSE year.n
month_or_now(month) == IF month = JNull THEN month_of(local_now) ELSE month.n

\* variant of the query: "WHERE user_id = ?"
month_rows_all(rows, year, month) == RowsOfUser(rows)

\* WHERE user_id = ? AND created_at >= ? AND created_at < ?
month_rows(rows, year, month) ==
  {r \in RowsOfUser(rows) :
     /\ created_ge(r.created_at, first_of_month(year, month))
     /\ created_lt(r.created_at, next_month_start(year, month))}

\* WHERE user_id = ? AND created_at BETWEEN ? AND ?
today_rows(rows, now) ==
  {r \in RowsOfUser(rows) :
     /\ created_ge(r.created_at, day_start(now))
     /\ created_le(r.created_at, day_end(now))}

api_finance_month(year, month) ==
  with_api_key(Request("month", Absent, Absent, ExtError, 0, year, month),
      LET y == year_or_now(year)
          m == month_or_now(month)
      IN  /\ req' = Request("month", Absent, Absent, ExtError, 0, year, month)
          /\ resp' = Response(200, "month",
                       [ok |-> TRUE, year |-> y, month |-> m,
                        items |-> items_of(order_asc(month_rows(store, y, m)))])
          /\ parsed' = NoParse
          /\ UNCHANGED <<store, nextId, clock, tz, inflight, writer, reflections, chat, reading, config, authorization>>)

\* variant of the today query: no ORDER BY, the rows in rowid order
today_listed_by_rowid(rows) == order_asc(rows)

\* ORDER BY created_at DESC of the today query
today_listed(rows) == order_desc(rows)

api_finance_today ==
  with_api_key(Request("today", Absent, Absent, ExtError, 0, JNull, JNull),
      /\ req' = Request("today", Absent, Absent, ExtError, 0, JNull, JNull)
      /\ resp' = Response(200, "today",
                    items_of(today_listed(today_rows(store, local_now))))
      /\ parsed' = NoParse
      /\ UNCHANGED <<store, nextId, clock, tz, inflight, writer, reflections, chat, reading, config, authorization>>)

----------------------------------------------------------------------------
(* Summaries.  Money in a summary is amount / 100.0 of an integer number   *)
(* of cents and is kept as that number of cents.                           *)

\* (row["category"] or "other").lower()
cat_of(row) == lower(IF row.category = <<>> THEN s_other ELSE row.category)

\* variant of the loop: by_category_cents[cat] = c, the last row of a
\* category replacing the earlier ones
by_category_cents_overwriting(rows) ==
  [c \in {cat_of(r) : r \in rows} |->
     (CHOOSE r \in rows : cat_of(r) = c /\ \A q \in rows : cat_of(q) = c => q.id <= r.id).amount_cents]

\* by_category_cents: the dict built by the loop over rows
by_category_cents(rows) ==
  [c \in {cat_of(r) : r \in rows} |-> sum_cents({r \in rows : cat_of(r) = c})]

\* rows[0]: the first row of the result, which SQLite scans in rowid order
first_row(rows) == CHOOSE r \in rows : \A q \in rows : r.id <= q.id

\* variant of the test: the early return never taken
no_rows_never(rows) == FALSE

\* "if not rows"
no_rows(rows) == rows = {}

budget_total == sum_values(MONTHLY_BUDGET_BY_CATEGORY)

\* variant of the test: "if over_under_total <= 0"
monthly_insight_nonstrict(over_under_total) ==
  IF over_under_total <= 0
    THEN [kind |-> "over budget", x |-> 0 - over_under_total, budget |-> budget_total]
    ELSE [kind |-> "under budget", x |-> over_under_total, budget |-> budget_total]

monthly_insight(over_under_total) ==
  IF over_under_total < 0
    THEN [kind |-> "over budget", x |-> 0 - over_under_total, budget |-> budget_total]
    ELSE [kind |-> "under budget", x |-> over_under_total, budget |-> budget_total]

\* variant of the early return: the dict without the budget differences
monthly_empty_sparse(year, month) ==
  [period |-> "month", year |-> year, month |-> month,
   from_date |-> first_of_month(year, month),
   to_date |-> next_month_start(year, month) - 1,
   total_spent |-> 0, currency |-> s_USD,
   by_category |-> <<>>,
   budget_by_category |-> MONTHLY_BUDGET_BY_CATEGORY,
   budget_total |-> budget_total,
   over_under_total |-> budget_total,
   transaction_count |-> 0,
   insight |-> [kind |-> "No spending logged for this month yet.",
                x |-> 0, budget |-> 0]]

\* the dict of the early return
monthly_empty(year, month) ==
  [period |-> "month", year |-> year, month |-> month,
   from_date |-> first_of_month(year, month),
   to_date |-> next_month_start(year, month) - 1,
   total_spent |-> 0, currency |-> s_USD,
   by_category |-> <<>>,
   budget_by_category |-> MONTHLY_BUDGET_BY_CATEGORY,
   diff_by_category |-> <<>>,
   budget_total |-> budget_total,
   over_under_total |-> budget_total,
   transaction_count |-> 0,
   insight |-> [kind |-> "No spending logged for this month yet.",
                x |-> 0, budget |-> 0]]

monthly_summary(rows, year, month) ==
  LET start     == first_of_month(year, month)
      to_date   == next_month_start(year, month) - 1
      total     == sum_cents(rows)
      by_cat    == by_category_cents(rows)
      diff      == [c \in DOMAIN MONTHLY_BUDGET_BY_CATEGORY |->
                      MONTHLY_BUDGET_BY_CATEGORY[c]
                        - (IF c \in DOMAIN by_cat THEN by_cat[c] ELSE 0)]
  IN
  IF no_rows(rows)
    THEN Response(200, "summary", monthly_empty(year, month))
  ELSE IF rows = {}
    \* currency = rows[0]["currency"] raises IndexError
    THEN Unhandled
    ELSE Response(200, "summary",
         [period |-> "month", year |-> year, month |-> month,
          from_date |-> start, to_date |-> to_date,
          total_spent |-> total, currency |-> first_row(rows).currency,
          by_category |-> by_cat,
          budget_by_category |-> MONTHLY_BUDGET_BY_CATEGORY,
          diff_by_category |-> diff,
          budget_total |-> budget_total,
          over_under_total |-> budget_total - total,
          transaction_count |-> Cardinality(rows),
          insight |-> monthly_insight(budget_total - total)])

api_finance_summary_monthly(year, month) ==
  with_api_key(Request("summary_monthly", Absent, Absent, ExtError, 0, year, month),
      LET y == year_or_now(year)
          m == month_or_now(month)
      IN  /\ req' = Request("summary_monthly", Absent, Absent, ExtError, 0, year, month)
          /\ resp' = monthly_summary(month_rows(store, y, m), y, m)
          /\ parsed' = NoParse
          /\ UNCHANGED <<store, nextId, clock, tz, inflight, writer, reflections, chat, reading, config, authorization>>)

\* The totals below 30.00, in cents, of which 30 % is a whole number of
\* cents and whose binary quotient (0.3 * total) / total comes out above the
\* double 0.3 (1.23 / 4.1 is 0.30000000000000004); every other quotient of
\* amounts below 30.00 compares with 0.3 as the exact ratio does
RatioTiesUp ==
  { 410, 430, 450, 510, 530, 610, 810, 820, 860, 900, 970, 1020, 1060, 1220,
    1270, 1310, 1370, 1410, 1470, 1510, 1550, 1620, 1640, 1690, 1720, 1790,
    1800, 1870, 1890, 1940, 1970, 2040, 2050, 2120, 2190, 2290, 2370, 2440,
    2540, 2620, 2690, 2740, 2770, 2820, 2850, 2940, 2990 }

\* ratio = coffee / total; ratio > 0.3, for coffee and total in cents
ratio_flagged(coffee, total) ==
  \/ 10 * coffee > 3 * total
  \/ 10 * coffee = 3 * total /\ total \in RatioTiesUp

\* [kind, coffee, total]
daily_insight(coffee, total) ==
  IF coffee > 0 /\ total > 0
    THEN IF ratio_flagged(coffee, total)
           THEN [kind |-> "Coffee is {ratio} of your spending today.",
                 coffee |-> coffee, total |-> total]
           ELSE [kind |-> "Your coffee spending is present but not dominating today.",
                 coffee |-> 0, total |-> 0]
    ELSE [kind |-> "No coffee logged today.", coffee |-> 0, total |-> 0]

\* the dict of the early return
daily_empty(now) ==
  [period |-> "today",
   from_date |-> day_start(now), to_date |-> day_end(now),
   total_spent |-> 0, currency |-> s_USD,
   by_category |-> <<>>,
   coffee_spent |-> 0,
   transaction_count |-> 0,
   insight |-> [kind |-> "No spending logged yet. Try adding one thing, even if it's tiny.",
                coffee |-> 0, total |-> 0]]

daily_summary(rows, now) ==
  LET total  == sum_cents(rows)
      by_cat == by_category_cents(rows)
      coffee == sum_cents({r \in rows : cat_of(r) = s_coffee})
  IN
  IF no_rows(rows)
    THEN Response(200, "summary", daily_empty(now))
  ELSE IF rows = {}
    \* currency = rows[0]["currency"] raises IndexError
    THEN Unhandled
    ELSE Response(200, "summary",
         [period |-> "today",
          from_date |-> day_start(now), to_date |-> day_end(now),
          total_spent |-> total, currency |-> first_row(rows).currency,
          by_category |-> by_cat,
          coffee_spent |-> coffee,
          transaction_count |-> Cardinality(rows),
          insight |-> daily_insight(coffee, total)])

api_finance_summary_daily ==
  with_api_key(Request("summary_daily", Absent, Absent, ExtError, 0, JNull, JNull),
      /\ req' = Request("summary_daily", Absent, Absent, ExtError, 0, JNull, JNull)
      /\ resp' = daily_summary(today_rows(store, local_now), local_now)
      /\ parsed' = NoParse
      /\ UNCHANGED <<store, nextId, clock, tz, inflight, writer, reflections, chat, reading, config, authorization>>)

----------------------------------------------------------------------------
(* The summaries served by worker threads.  Both handlers are plain defs; *)
(* the steps of one request are the statements that read what the other   *)
(* threads change: the clock and the database.                            *)

\* from the request to the bounds of the window: datetime.now() is read and
\* year and month are defaulted
summary_begin(p, op, year, month) ==
  /\ require_api_key(authorization) = NoResponse
  /\ reading[p].pc = "idle"
  /\ reading' = [reading EXCEPT ![p] =
       [pc |-> "started", op |-> op, rows |-> {},
        year |-> year_or_now(year), month |-> month_or_now(month),
        now |-> local_now, resp |-> NoResponse]]
  /\ UNCHANGED <<store, nextId, clock, tz, req, parsed, resp, inflight, writer, reflections,
                 chat, config, authorization>>

\* the rows an INSERT has written inside a transaction not yet committed
PendingRows == UNION {inflight[q].rows : q \in {q \in Racers : inflight[q].pc = "inserted"}}

\* variant of the isolation: a SELECT reads the uncommitted rows too
visible_rows_dirty(rows, pending) == rows \cup pending

\* the rows a SELECT on another connection reads: the committed ones
visible_rows(rows, pending) == rows

\* rows = con.execute(SELECT ...).fetchall(): the one statement that reads
\* the table
summary_fetch(p) ==
  /\ reading[p].pc = "started"
  /\ reading' = [reading EXCEPT
       ![p].pc = "fetched",
       ![p].rows = IF reading[p].op = "summary_monthly"
                     THEN month_rows(visible_rows(store, PendingRows),
                                     reading[p].year, reading[p].month)
                     ELSE today_rows(visible_rows(store, PendingRows), reading[p].now)]
  /\ UNCHANGED <<store, nextId, clock, tz, req, parsed, resp, inflight, writer, reflections,
                 chat, config, authorization>>

\* from "if not rows" to the return: computed from the fetched rows
summary_return(p) ==
  /\ reading[p].pc = "fetched"
  /\ reading' = [reading EXCEPT
       ![p].pc = "done",
       ![p].resp = IF reading[p].op = "summary_monthly"
                     THEN monthly_summary(reading[p].rows, reading[p].year, reading[p].month)
                     ELSE daily_summary(reading[p].rows, reading[p].now)]
  /\ UNCHANGED <<store, nextId, clock, tz, req, parsed, resp, inflight, writer, reflections,
                 chat, config, authorization>>

----------------------------------------------------------------------------
(* The clock *)

Tick ==
  /\ clock < MaxClock
  /\ clock' = clock + 1
  /\ UNCHANGED <<store, nextId, tz, req, parsed, resp, inflight, writer, reflections, chat, reading, config, authorization>>

----------------------------------------------------------------------------
(* Conversations, chat and the self-test *)

s_selftest == <<"S", "e", "l", "f", "-", "t", "e", "s", "t">>
s_selftest_renamed == s_selftest \o <<" ", "(", "r", "e", "n", "a", "m", "e", "d", ")">>
s_quick_check ==
  <<"Q", "u", "i", "c", "k", " ", "s", "e", "l", "f", "-", "c", "h", "e", "c", "k", ":",
    " ", "s", "a", "y", " ", "'", "p", "o", "n", "g", "'", " ", "o", "n", "c", "e", ".">>
s_pong == <<"p", "o", "n", "g">>
s_im_here == <<"I", "'", "m", " ", "h", "e", "r", "e", ".">>

\* the state of the two tables while a handler runs
Tables(convs, cseq, msgs, mseq) ==
  [conversations |-> convs, convSeq |-> cseq, messages |-> msgs, msgSeq |-> mseq]

\* _create_conversation(title): the new row takes the next id of the sequence
create_conversation(t, title) ==
  [t EXCEPT !.conversations = @ \cup {[id |-> t.convSeq, title |-> or_none(strip(title))]},
            !.convSeq = @ + 1]

\* _insert_message(conversation_id, role, text); the foreign key is not
\* enforced (no PRAGMA foreign_keys), so any conversation_id is accepted
insert_message(t, conversation_id, role, text) ==
  [t EXCEPT !.messages = @ \cup {[id |-> t.msgSeq, conversation_id |-> conversation_id,
                                   role |-> role, text |-> text]},
            !.msgSeq = @ + 1]

\* len(_list_conversations(limit))
list_conversations_len(t, limit) ==
  IF Cardinality(t.conversations) < limit THEN Cardinality(t.conversations) ELSE limit

\* _rename_conversation(conversation_id, title)
rename_conversation(t, conversation_id, title) ==
  [t EXCEPT !.conversations =
     {IF c.id = conversation_id THEN [c EXCEPT !.title = or_none(strip(title))] ELSE c :
        c \in t.conversations}]

\* _delete_conversation(conversation_id): both DELETEs, then commit
delete_conversation(t, conversation_id) ==
  [t EXCEPT !.messages = {m \in @ : m.conversation_id # conversation_id},
            !.conversations = {c \in @ : c.id # conversation_id}]

\* What the calls made inside _chat_and_persist do: whether each
\* _insert_message succeeds, and whether the completion returns a reply,
\* an empty reply, or raises
ChatOutcomes ==
  [user_saved : BOOLEAN, chat : {"reply", "empty", "raises"}, reply_saved : BOOLEAN]

\* the result of _chat_and_persist: the exception raised (NoResponse when it
\* returns), the tuple (cid, reply), and the tables it leaves
ChatResult(raised, cid, reply, t) == [raised |-> raised, cid |-> cid, reply |-> reply, t |-> t]

\* after the user message: the completion and the assistant message
chat_replied(t, cid, out) ==
  IF out.chat = "raises" THEN ChatResult(HTTPError(500, "Chat error: {e}"), cid, <<>>, t)
  ELSE LET reply == IF out.chat = "empty" THEN s_im_here ELSE s_pong
       IN  ChatResult(NoResponse, cid, reply,
                      IF out.reply_saved THEN insert_message(t, cid, "assistant", reply) ELSE t)

\* after "if not cid": the user message, saved unless its insert raises
chat_persisted(t, cid, text, out) ==
  chat_replied(IF out.user_saved THEN insert_message(t, cid, "user", text) ELSE t, cid, out)

\* _chat_and_persist(user_text, conv_id); conv_id is None (JNull) or an int
chat_and_persist(t, user_text, conv_id, out) ==
  IF config.openai_key = <<>>
    THEN ChatResult(HTTPError(500, "OPENAI_API_KEY missing"), 0, <<>>, t)
  ELSE IF strip(user_text) = <<>>
    THEN ChatResult(HTTPError(400, "text required"), 0, <<>>, t)
  ELSE IF conv_id = JNull \/ conv_id.n = 0
    THEN chat_persisted(create_conversation(t, strip(user_text)), t.convSeq,
                        strip(user_text), out)
    ELSE chat_persisted(t, conv_id.n, strip(user_text), out)

\* the tables written back, with the request and its response
tables_left(t, request, response) ==
  /\ conversations' = t.conversations
  /\ convSeq' = t.convSeq
  /\ messages' = t.messages
  /\ msgSeq' = t.msgSeq
  /\ req' = request
  /\ resp' = response
  /\ parsed' = NoParse
  /\ UNCHANGED <<store, nextId, clock, tz, inflight, writer, reflections, reading, config, authorization>>

CurrentTables == Tables(conversations, convSeq, messages, msgSeq)

\* POST /api/chat
api_chat(user_text, conv_id, out) ==
  with_api_key(Request("chat", JStr(user_text), Absent, ExtError,
            IF conv_id = JNull THEN 0 ELSE conv_id.n, JNull, JNull),
      LET r == chat_and_persist(CurrentTables, user_text, conv_id, out)
      IN  tables_left(r.t,
            Request("chat", JStr(user_text), Absent, ExtError,
                    IF conv_id = JNull THEN 0 ELSE conv_id.n, JNull, JNull),
            IF r.raised # NoResponse THEN r.raised
            ELSE Response(200, "chat", [ok |-> TRUE, reply |-> r.reply, conversation_id |-> r.cid])))

\* DELETE /api/conversations/{conversation_id}
api_delete_conversation(conversation_id) ==
  with_api_key(Request("delete_conversation", Absent, Absent, ExtError, conversation_id, JNull, JNull),
      tables_left(delete_conversation(CurrentTables, conversation_id),
        Request("delete_conversation", Absent, Absent, ExtError, conversation_id, JNull, JNull),
        Response(200, "deleted", [ok |-> TRUE, id |-> conversation_id])))

\* the report of a self-test that ran to its end, and of one whose chat raised
selftest_passed(cid, reply, listed) ==
  [ok |-> TRUE,
   steps |-> << <<"create", cid>>, <<"chat", IF reply = <<>> THEN 0 ELSE 1>>,
                <<"list", listed>>, <<"rename", 1>>, <<"delete", 1>> >>]

selftest_failed(cid) == [ok |-> FALSE, steps |-> << <<"create", cid>> >>]

\* the try block after the chat step: list, rename, delete
selftest_finish(r) ==
  tables_left(delete_conversation(rename_conversation(r.t, r.cid, s_selftest_renamed), r.cid),
    Request("selftest", Absent, Absent, ExtError, 0, JNull, JNull),
    Response(200, "selftest", selftest_passed(r.cid, r.reply, list_conversations_len(r.t, 5))))

\* the except clause: the report with the error, nothing undone
selftest_except(r, cid) ==
  tables_left(r.t,
    Request("selftest", Absent, Absent, ExtError, 0, JNull, JNull),
    Response(200, "selftest", selftest_failed(cid)))

selftest_chatted(r, cid) ==
  IF r.raised # NoResponse THEN selftest_except(r, cid) ELSE selftest_finish(r)

\* POST /api/selftest
api_selftest(out) ==
  with_api_key(Request("selftest", Absent, Absent, ExtError, 0, JNull, JNull),
      selftest_chatted(
        chat_and_persist(create_conversation(CurrentTables, s_selftest),
                         s_quick_check, JInt(convSeq), out),
        convSeq))

----------------------------------------------------------------------------
(* Inputs *)

w_d7 == <<"$", "7">>
w_n7 == <<"7">>
w_d0 == <<"$", "0">>
w_n004 == <<"0", ".", "0", "0", "4">>
w_n7d == <<"7", "$">>
w_nan == <<"n", "a", "n">>
w_latte == <<"l", "a", "t", "t", "e">>
w_UBER == <<"U", "B", "E", "R">>
w_pizza == <<"p", "i", "z", "z", "a">>
w_market == <<"m", "a", "r", "k", "e", "t">>
w_tea == <<"t", "e", "a">>

Vocabulary ==
  { w_d7, w_n7, w_d0, w_n004, w_n7d, w_nan, w_latte, w_UBER, w_pizza, w_market, w_tea }

\* texts of 1..n words of the vocabulary, one space between words
RECURSIVE TextsUpTo(_)
TextsUpTo(n) ==
  IF n <= 1 THEN Vocabulary
  ELSE TextsUpTo(n - 1)
         \cup {t \o <<" ">> \o w : t \in TextsUpTo(n - 1), w \in Vocabulary}

Texts == TextsUpTo(MaxWords)

t_latte7  == w_d7 \o <<" ">> \o w_latte       \* "$7 latte"
t_pizza7  == w_n7 \o <<" ">> \o w_pizza       \* "7 pizza"
t_refund0 == w_tea \o <<" ">> \o w_d0         \* "tea $0"
t_tea     == w_tea                            \* "tea"
t_padded  == <<" ">> \o t_latte7 \o <<" ">>   \* " $7 latte "
t_latte_uber_pizza ==                         \* "latte UBER pizza"
  w_latte \o <<" ">> \o w_UBER \o <<" ">> \o w_pizza

s_mike   == <<"m", "i", "k", "e">>
s_crypto == <<"c", "r", "y", "p", "t", "o">>
s_sar    == <<"s", "a", "r">>

\* the values of payload["text"] and payload["emotion"]
TextValues    == {Absent, JStr(<<>>), JStr(<<" ">>), JStr(t_padded), JStr(t_latte_uber_pizza)}
                   \cup {JStr(t) : t \in Texts}
EmotionValues == {Absent, JStr(s_tired), JStr(<<" ">>)}

\* the values the extraction may put under each key
AmountValues ==
  { Absent, JNull, JNaN, JBool(TRUE), JList(1),
    JNum(7000), JNum(12500), JNum(4), JNum(0), JNum(0 - 5000),
    JStr(w_n7), JStr(w_tea) }
CurrencyValues == { Absent, JNull, JStr(s_sar) }
MerchantValues ==
  { Absent, JNull, JStr(<<>>), JStr(<<" ">>), JStr(s_mike),
    JStr(<<" ">> \o s_mike), JNum(5000), JNum(0) }
CategoryValues ==
  { Absent, JNull, JStr(<<" ">>), JStr(s_coffee), JStr(s_fun),
    JStr(s_crypto), JStr(<<"F", "u", "n">>), JNum(5000) }
CreatedValues == { Absent, JIso(0) }
NotesValues   == { Absent, JNull, JStr(s_tired), JStr(<<" ">>) }

Dict(a, cu, me, ca, cr, no) ==
  [amount |-> a, currency |-> cu, merchant |-> me,
   category |-> ca, created_at_iso |-> cr, notes |-> no]

\* every amount, merchant, category and date together, and every currency
\* and notes with an accepted and a rejected amount
ExtObjects ==
  { ExtObject(Dict(a, Absent, me, ca, cr, Absent)) :
      a \in AmountValues, me \in MerchantValues,
      ca \in CategoryValues, cr \in CreatedValues }
    \cup
  { ExtObject(Dict(a, cu, Absent, Absent, Absent, no)) :
      a \in {JNum(7000), JNum(0)}, cu \in CurrencyValues, no \in NotesValues \cup {JNum(5000)} }

ExtValues == { ExtValue(v) : v \in {JNull, JNum(7000), JStr(w_n7), JList(0), JBool(TRUE)} }

\* objects that differ in amount and category only
ExtCoreObjects ==
  { ExtObject(Dict(a, Absent, Absent, ca, Absent, Absent)) :
      a \in {Absent, JNum(7000), JNum(4)},
      ca \in {Absent, JStr(s_fun), JStr(s_coffee), JStr(s_crypto)} }

GoodObject ==
  ExtObject(Dict(JNum(12500), JStr(s_sar), JStr(s_mike), JStr(s_fun), JIso(0), JStr(s_tired)))
OddObject ==
  ExtObject(Dict(JNum(4), Absent, JNull, JStr(s_crypto), Absent, JNull))

\* every text with the extraction failing or differing in amount and
\* category, and every extraction output with a few texts
IngestInputs ==
  (TextValues \X {Absent} \X ({ExtError} \cup ExtCoreObjects))
    \cup ({JStr(t_latte7), JStr(t_tea)}
            \X {Absent} \X (ExtObjects \cup ExtValues))
    \cup ({JStr(t_latte7)} \X EmotionValues \X {ExtError, GoodObject})

\* the requests of the long-running specification
LogRequests ==
  { <<JStr(t_latte7), Absent, ExtError>>,
    <<JStr(t_latte7), JStr(s_tired), GoodObject>>,
    <<JStr(t_pizza7), Absent, ExtError>>,
    <<JStr(t_tea), Absent, OddObject>>,
    <<JStr(t_tea), Absent, GoodObject>>,
    <<JStr(t_refund0), Absent, ExtError>>,
    <<JStr(t_tea), Absent, ExtError>>,
    <<JStr(t_tea), Absent, ExtValue(JList(0))>>,
    <<JStr(t_tea), Absent, ExtObject(Dict(JNaN, Absent, Absent, Absent, Absent, Absent))>>,
    <<Absent, Absent, ExtError>> }

\* (year, month) of the month listing and the monthly summary
MonthRequests ==
  { <<JNull, JNull>>, <<JInt(2024), JInt(12)>>, <<JInt(2025), JInt(1)>>,
    <<JInt(2025), JNull>> }

TzOffsets == {0 - 1, 0, 1}

----------------------------------------------------------------------------
(* Specifications *)

\* A row of another user_id, written by something other than these
\* handlers: the table has a user_id column, the handlers only ever use
\* 'default'.
ForeignRow ==
  [id |-> 1, user_id |-> s_foreign, created_at |-> 0, amount_cents |-> 500,
   currency |-> s_USD, merchant |-> JStr(s_mike), raw_input |-> t_latte7,
   category |-> s_coffee, emotion |-> JNull, notes |-> JNull]

Init ==
  /\ store \in {{}, {ForeignRow}}
  /\ nextId = Cardinality(store) + 1
  /\ clock = 0
  /\ tz \in TzOffsets
  /\ parsed = NoParse
  /\ req = NoRequest
  /\ resp = NoResponse
  /\ inflight = [p \in Racers |-> Waiting]
  /\ writer = 0
  /\ reflections = 0
  /\ conversations = {}
  /\ convSeq = 1
  /\ messages = {}
  /\ msgSeq = 1
  /\ reading = [p \in Readers |-> NotReading]
  /\ config = OpenConfig
  /\ authorization = JNull

\* ids used so far by rows this process inserted
InsertedCount == (nextId - 1) - Cardinality(store \ RowsOfUser(store))

Log ==
  /\ InsertedCount < MaxRows
  /\ \E r \in LogRequests : api_finance_log(r[1], r[2], r[3])

Delete == \E id \in 1..(MaxRows + 2) : api_finance_delete(id)

Month == \E ym \in MonthRequests : api_finance_month(ym[1], ym[2])

SummaryMonthly == \E ym \in MonthRequests : api_finance_summary_monthly(ym[1], ym[2])

Next ==
  \/ Log
  \/ Delete
  \/ Month
  \/ api_finance_today
  \/ SummaryMonthly
  \/ api_finance_summary_daily
  \/ Tick

Spec == Init /\ [][Next]_vars

InitIngest ==
  /\ store \in {{}, {ForeignRow}}
  /\ nextId = Cardinality(store) + 1
  /\ clock = 0
  /\ tz = 0
  /\ parsed = NoParse
  /\ req = NoRequest
  /\ resp = NoResponse
  /\ inflight = [p \in Racers |-> Waiting]
  /\ writer = 0
  /\ reflections = 0
  /\ conversations = {}
  /\ convSeq = 1
  /\ messages = {}
  /\ msgSeq = 1
  /\ reading = [p \in Readers |-> NotReading]
  /\ config = OpenConfig
  /\ authorization = JNull

\* One request to api_finance_log, over all the inputs, at any time
LogOnce ==
  /\ req.op = "none"
  /\ \E r \in IngestInputs : api_finance_log(r[1], r[2], r[3])

TickBefore == req.op = "none" /\ Tick

NextIngest == LogOnce \/ TickBefore

SpecIngest == InitIngest /\ [][NextIngest]_vars

\* Stores left by earlier ingests and deletes: up to MaxSeed rows of the
\* default user with ids in insertion order, created_at not after the clock
\* and not decreasing with the id.
SeedKinds ==
  { <<s_food, 1500>>, <<s_food, 31000>>, <<s_crypto, 1500>>, <<<<"F", "u", "n">>, 1500>> }

SeedRow(id, created_at, kind) ==
  [id |-> id, user_id |-> s_default, created_at |-> created_at,
   amount_cents |-> kind[2], currency |-> s_USD, merchant |-> JStr(s_unknown),
   raw_input |-> t_tea, category |-> kind[1], emotion |-> JNull, notes |-> JNull]

SeedStores(now) ==
  UNION { { {SeedRow(i, c[i], k[i]) : i \in 1..n} :
              c \in {f \in [1..n -> 0..now] : \A i \in 1..n : \A j \in i..n : f[i] <= f[j]},
              k \in [1..n -> SeedKinds] } :
          n \in 0..MaxSeed }

InitSeeded ==
  /\ clock \in 0..MaxClock
  /\ store \in SeedStores(clock)
  /\ nextId = Cardinality(store) + 1
  /\ tz \in TzOffsets
  /\ parsed = NoParse
  /\ req = NoRequest
  /\ resp = NoResponse
  /\ inflight = [p \in Racers |-> Waiting]
  /\ writer = 0
  /\ reflections = 0
  /\ conversations = {}
  /\ convSeq = 1
  /\ messages = {}
  /\ msgSeq = 1
  /\ reading = [p \in Readers |-> NotReading]
  /\ config = OpenConfig
  /\ authorization = JNull

\* the read-only handlers over the seeded stores
NextSeeded ==
  \/ Month
  \/ api_finance_today
  \/ SummaryMonthly
  \/ api_finance_summary_daily
  \/ Tick

SpecSeeded == InitSeeded /\ [][NextSeeded]_vars

\* Two ingests in two worker threads, their steps interleaved in any order
RaceInputs ==
  { <<JStr(t_latte7), Absent, ExtError>>,
    <<JStr(t_padded), JStr(s_tired), GoodObject>>,
    <<JStr(t_refund0), Absent, ExtError>> }

InitRace ==
  /\ store \in {{}, {ForeignRow}}
  /\ nextId = Cardinality(store) + 1
  /\ clock = 0
  /\ tz = 0
  /\ parsed = NoParse
  /\ req = NoRequest
  /\ resp = NoResponse
  /\ inflight = [p \in Racers |-> Waiting]
  /\ writer = 0
  /\ reflections = 0
  /\ conversations = {}
  /\ convSeq = 1
  /\ messages = {}
  /\ msgSeq = 1
  /\ reading = [p \in Readers |-> NotReading]
  /\ config = OpenConfig
  /\ authorization = JNull

Prepare == \E p \in Racers : \E r \in RaceInputs : log_prepare(p, r[1], r[2], r[3])

Insert == \E p \in Racers : log_insert(p)

Commit == \E p \in Racers : log_commit(p)

Select == \E p \in Racers : log_select(p)

NextRace ==
  \/ Prepare
  \/ Insert
  \/ Commit
  \/ Select
  \/ Tick

SpecRace == InitRace /\ [][NextRace]_vars

\* The steps of the ingests with database calls that may raise, and
\* save_reflection
EnsureRaises ==
  \E p \in Racers : \E r \in RaceInputs : log_ensure_raises(p, r[1], r[2], r[3])

DbRaises == \E p \in Racers : log_db_raises(p)

SaveReflection == \E raises \in BOOLEAN : save_reflection(t_tea, raises)

NextFail ==
  \/ Prepare
  \/ Insert
  \/ Commit
  \/ Select
  \/ EnsureRaises
  \/ DbRaises
  \/ SaveReflection
  \/ Tick

SpecFail == InitRace /\ [][NextFail]_vars

\* One ingest of every amount of 1..MaxMills mills returned by the
\* extraction
AmountObject(m) == ExtObject(Dict(JNum(m), Absent, Absent, Absent, Absent, Absent))

LogAmount ==
  /\ req.op = "none"
  /\ \E m \in 1..MaxMills : api_finance_log(JStr(t_tea), Absent, AmountObject(m))

NextAmounts == LogAmount \/ TickBefore

SpecAmounts == InitIngest /\ [][NextAmounts]_vars

\* One ingest of every re-casing of a few texts
t_uber_airport ==
  <<"u", "b", "e", "r", " ", "t", "o", " ", "a", "i", "r", "p", "o", "r", "t">>

t_bus_long_s == <<"b", "u", c_long_s>>

CaseTexts ==
  { t_uber_airport, t_latte7, t_tea, w_UBER \o <<" ">> \o w_pizza, t_bus_long_s }

\* the texts that differ from s in the case of letters only
RECURSIVE Recasings(_)
Recasings(s) ==
  IF s = <<>> THEN {<<>>}
  ELSE {<<c>> \o t : c \in {lower_char(Head(s)), upper_char(Head(s))},
                     t \in Recasings(Tail(s))}

CaseObjects ==
  { ExtError, ExtObject(Dict(JNum(7000), Absent, Absent, JStr(s_fun), Absent, Absent)) }

LogCased ==
  /\ req.op = "none"
  /\ \E s \in CaseTexts : \E t \in Recasings(s) : \E e \in CaseObjects :
       api_finance_log(JStr(t), Absent, e)

NextCase == LogCased \/ TickBefore

SpecCase == InitIngest /\ [][NextCase]_vars

\* Chats, deletions of conversations and self-tests, with and without
\* OPENAI_API_KEY, every call inside _chat_and_persist succeeding or failing
InitChat ==
  /\ store = {}
  /\ nextId = 1
  /\ clock = 0
  /\ tz = 0
  /\ parsed = NoParse
  /\ req = NoRequest
  /\ resp = NoResponse
  /\ inflight = [p \in Racers |-> Waiting]
  /\ writer = 0
  /\ reflections = 0
  /\ conversations = {}
  /\ convSeq = 1
  /\ messages = {}
  /\ msgSeq = 1
  /\ reading = [p \in Readers |-> NotReading]
  /\ config \in {OpenConfig, [OpenConfig EXCEPT !.openai_key = <<>>]}
  /\ authorization = JNull

ChatRoom == convSeq <= MaxConvs /\ msgSeq <= MaxMsgs

Chat ==
  /\ ChatRoom
  /\ \E text \in {s_pong, <<" ">>} : \E conv_id \in {JNull} \cup {JInt(k) : k \in 0..MaxConvs} :
       \E out \in ChatOutcomes : api_chat(text, conv_id, out)

DeleteConversation == \E id \in 1..MaxConvs : api_delete_conversation(id)

Selftest == ChatRoom /\ \E out \in ChatOutcomes : api_selftest(out)

NextChat ==
  \/ Chat
  \/ DeleteConversation
  \/ Selftest

SpecChat == InitChat /\ [][NextChat]_vars

\* One ingest of every text of up to MaxRuleWords words, one word per
\* keyword rule and one that no rule matches
w_netflix == <<"n", "e", "t", "f", "l", "i", "x">>
w_rent    == <<"r", "e", "n", "t">>
w_class   == <<"c", "l", "a", "s", "s">>

RuleWords == { w_latte, w_UBER, w_market, w_netflix, w_rent, w_class, w_pizza, w_tea }

RECURSIVE RuleTexts(_)
RuleTexts(n) ==
  IF n <= 1 THEN RuleWords
  ELSE RuleTexts(n - 1)
         \cup {t \o <<" ">> \o w : t \in RuleTexts(n - 1), w \in RuleWords}

RuleObjects ==
  { ExtError } \cup
  { ExtObject(Dict(JNum(7000), Absent, Absent, ca, Absent, Absent)) :
      ca \in {Absent, JStr(s_fun), JStr(s_coffee), JStr(s_groceries)} }

LogRule ==
  /\ req.op = "none"
  /\ \E t \in RuleTexts(MaxRuleWords) : \E e \in RuleObjects :
       api_finance_log(JStr(t), Absent, e)

InitRules == InitIngest /\ store = {}

SpecRules == InitRules /\ [][LogRule]_vars

\* Ledgers for the summaries: up to MaxSeed rows of the default user, each
\* stamped at tick 0 or now, with a coffee of 1.23, a meal of 2.87 (coffee is
\* 30 % of the two), an uncategorised 7.00 and a rent of the whole budget
LedgerKinds ==
  { <<s_coffee, 123>>, <<s_food, 287>>, <<<<>>, 700>>, <<s_rent, 213500>> }

LedgerStores(now) ==
  UNION { { {SeedRow(i, c[i], k[i]) : i \in 1..n} :
              c \in {f \in [1..n -> {0, now}] : \A i \in 1..n : \A j \in i..n : f[i] <= f[j]},
              k \in [1..n -> LedgerKinds] } :
          n \in 0..MaxSeed }

InitLedger ==
  /\ clock = MaxClock
  /\ store \in LedgerStores(clock)
  /\ nextId = Cardinality(store) + 1
  /\ tz = 0
  /\ parsed = NoParse
  /\ req = NoRequest
  /\ resp = NoResponse
  /\ inflight = [p \in Racers |-> Waiting]
  /\ writer = 0
  /\ reflections = 0
  /\ conversations = {}
  /\ convSeq = 1
  /\ messages = {}
  /\ msgSeq = 1
  /\ reading = [p \in Readers |-> NotReading]
  /\ config = OpenConfig
  /\ authorization = JNull

NextLedger ==
  \/ SummaryMonthly
  \/ api_finance_summary_daily

SpecLedger == InitLedger /\ [][NextLedger]_vars

\* A summary in one worker thread while two ingests and deletes run in
\* others, their steps interleaved in any order
Begin ==
  \E p \in Readers :
    \/ summary_begin(p, "summary_monthly", JNull, JNull)
    \/ summary_begin(p, "summary_daily", JNull, JNull)

Fetch == \E p \in Readers : summary_fetch(p)

Return == \E p \in Readers : summary_return(p)

\* the DELETE waits in the busy handler while another connection writes
DeleteCommitted == writer = 0 /\ Delete

NextReadRace ==
  \/ Prepare
  \/ Insert
  \/ Commit
  \/ Select
  \/ DeleteCommitted
  \/ Begin
  \/ Fetch
  \/ Return

SpecReadRace == InitRace /\ [][NextReadRace]_vars

\* Deployments with and without an enforced key, and clients sending each
\* kind of Authorization header
s_key == <<"k", "9">>

KeyConfig == [enforce |-> TRUE, api_key |-> s_key, openai_key |-> s_sk]

\* ENFORCE_API_KEY=false with a key configured
UnenforcedConfig == [KeyConfig EXCEPT !.enforce = FALSE]

h_exact   == JStr(s_bearer \o s_key)
h_spaced  == JStr(s_bearer \o <<" ">> \o s_key)
h_wrong   == JStr(s_bearer \o <<"k", "8">>)
h_longer  == JStr(s_bearer \o s_key \o <<" ", "x">>)
h_basic   == JStr(<<"B", "a", "s", "i", "c", " ">> \o s_key)
h_lower   == JStr(<<"b", "e", "a", "r", "e", "r", " ">> \o s_key)
h_nospace == JStr(<<"B", "e", "a", "r", "e", "r">>)
h_bare    == JStr(s_key)

Headers ==
  {JNull, JStr(<<>>), h_exact, h_spaced, h_wrong, h_longer, h_basic, h_lower,
   h_nospace, h_bare}

AuthCases ==
  ({KeyConfig} \X Headers) \cup ({UnenforcedConfig, OpenConfig} \X {JNull, h_wrong})

InitAuth ==
  /\ store \in {{}, {SeedRow(1, 0, <<s_coffee, 123>>)}}
  /\ nextId = Cardinality(store) + 1
  /\ clock = 0
  /\ tz = 0
  /\ parsed = NoParse
  /\ req = NoRequest
  /\ resp = NoResponse
  /\ inflight = [p \in Racers |-> Waiting]
  /\ writer = 0
  /\ reflections = 0
  /\ conversations = {}
  /\ convSeq = 1
  /\ messages = {}
  /\ msgSeq = 1
  /\ reading = [p \in Readers |-> NotReading]
  /\ \E c \in AuthCases : config = c[1] /\ authorization = c[2]

NextAuth ==
  \/ Log
  \/ Delete
  \/ Month
  \/ api_finance_today
  \/ SummaryMonthly
  \/ api_finance_summary_daily

SpecAuth == InitAuth /\ [][NextAuth]_vars

----------------------------------------------------------------------------
(* Properties *)

\* a step of a handler: every step but Tick leaves the clock alone
HandlerStep == clock' = clock

Blank(v) == v.t = "str" /\ strip(v.s) = <<>>

\* C1: ingest answers 400 InvalidAmount, with the example phrasing, whenever
\* the resolved amount is <= 0, and then inserts no row and leaves the
\* store as it was.
C1_InvalidAmountRejected ==
  [][ ( /\ HandlerStep
        /\ req'.op = "log"
        /\ parsed'.called /\ ~parsed'.raised
        /\ resolved_amount(parsed'.data).t = "num"
        /\ resolved_amount(parsed'.data).n <= 0 )
      => ( /\ resp'.status = 400
           /\ resp'.kind = "error"
           /\ resp'.body = InvalidAmount.body
           /\ store' = store
           /\ nextId' = nextId ) ]_vars

\* "tea $0" with the extraction failing: the first number is 0
C1_Witness ==
  /\ req.op = "log"
  /\ req.text = JStr(t_refund0)
  /\ req.ext.kind = "error"
  /\ parsed.data.amount = JNum(0)
  /\ resp.status = 400
  /\ resp.body = InvalidAmount.body

\* C2: every persisted transaction has amount_cents > 0.
C2_AmountCentsPositive == \A r \in store : r.amount_cents > 0

\* the closed category set of the data model
ClosedCategories ==
  { s_coffee, s_food, s_groceries, s_transport, s_subscriptions, s_shopping,
    s_bills, s_rent, s_college, s_fun, s_other }

\* C3: the category of every persisted transaction is in the closed set.
C3_CategoryInClosedSet == \A r \in store : r.category \in ClosedCategories

\* C4: the merchant of a parsed record and of a persisted transaction is
\* never empty; with no merchant, a null merchant or a blank merchant from
\* the extraction it is "unknown".
C4_MerchantNeverEmpty ==
  /\ (req.op = "log" /\ parsed.called /\ ~parsed.raised) =>
       /\ parsed.data.merchant \notin {Absent, JNull}
       /\ ~Blank(parsed.data.merchant)
       /\ (req.ext.kind = "object"
             /\ (req.ext.data.merchant \in {Absent, JNull} \/ Blank(req.ext.data.merchant)))
            => parsed.data.merchant = JStr(s_unknown)
  /\ \A r \in store : r.merchant # JNull /\ ~Blank(r.merchant)

\* C5: for every output of the extraction, parse does not raise and returns
\* a record with amount, currency, merchant, category, created_at_iso and
\* notes all present.
C5_ParseNeverRaises ==
  (req.op = "log" /\ parsed.called) =>
    /\ ~parsed.raised
    /\ parsed.data.amount # Absent
    /\ parsed.data.currency # Absent
    /\ parsed.data.merchant # Absent
    /\ parsed.data.category # Absent
    /\ parsed.data.created_at_iso # Absent
    /\ parsed.data.notes # Absent

\* the maximal runs of characters of s outside delims, as <<first, last>>
Runs(s, delims) ==
  { ij \in (1..Len(s)) \X (1..Len(s)) :
      /\ ij[1] <= ij[2]
      /\ \A k \in ij[1]..ij[2] : s[k] \notin delims
      /\ (ij[1] = 1 \/ s[ij[1] - 1] \in delims)
      /\ (ij[2] = Len(s) \/ s[ij[2] + 1] \in delims) }

\* a token without its leading currency symbol
WithoutLeadingSymbol(tok) ==
  IF tok # <<>> /\ Head(tok) = "$" THEN Tail(tok) ELSE tok

AllKeywords ==
  coffee_keywords \cup transport_keywords \cup grocery_keywords
    \cup subscription_keywords \cup rent_keywords \cup college_keywords
    \cup food_keywords

\* the defaults of the fallback path other than the amount
FallbackDefaults ==
  /\ parsed.data.currency = JStr(s_USD)
  /\ ~any_in(AllKeywords, lower(req.text.s)) => parsed.data.category = JStr(s_other)

\* C6 as stated: when the extraction call fails, amount is the first
\* whitespace-delimited token of the raw text that parses as a number after
\* stripping a leading currency symbol (0.0 if there is none), currency is
\* USD and category "other" before normalization; "$7 latte" gives 7.
C6_FirstTokenAfterLeadingSymbol ==
  (req.op = "log" /\ parsed.called /\ req.ext.kind = "error") =>
    LET s     == req.text.s
        tok(r) == WithoutLeadingSymbol(SubSeq(s, r[1], r[2]))
        nums  == {r \in Runs(s, Whitespace) : float_of_str(tok(r)).ok}
        first == CHOOSE r \in nums : \A q \in nums : r[1] <= q[1]
    IN  /\ parsed.data.amount =
             (IF nums = {} THEN JNum(0) ELSE float_of_str(tok(first)).v)
        /\ FallbackDefaults

\* C6 as amended: when the extraction call fails, amount is the first
\* token that parses as a number once every "$" of the raw text, wherever
\* it stands, is taken as a separator like whitespace (0.0 if there is
\* none), currency is USD and category "other" before normalization;
\* "$7 latte" gives 7.
C6_FirstTokenDollarAsSeparator ==
  (req.op = "log" /\ parsed.called /\ req.ext.kind = "error") =>
    LET s     == req.text.s
        tok(r) == SubSeq(s, r[1], r[2])
        nums  == {r \in Runs(s, Whitespace \cup {"$"}) : float_of_str(tok(r)).ok}
        first == CHOOSE r \in nums : \A q \in nums : r[1] <= q[1]
    IN  /\ parsed.data.amount =
             (IF nums = {} THEN JNum(0) ELSE float_of_str(tok(first)).v)
        /\ FallbackDefaults
        /\ s = t_latte7 => parsed.data.amount = JNum(7000)

\* "$7 latte" with the extraction failing
C6_Witness ==
  /\ req.op = "log"
  /\ req.text = JStr(t_latte7)
  /\ req.ext.kind = "error"
  /\ parsed.called
  /\ parsed.data.amount = JNum(7000)

\* the extraction output x with created_at_iso replaced by d
WithDate(x, d) == [x EXCEPT !.data.created_at_iso = d]

\* C7: the created_at of a persisted transaction is the UTC time of the
\* ingestion and does not depend on the created_at_iso of the extraction:
\* the same ingest with any other model-inferred date stores the same row.
C7_CreatedAtIsIngestionTime ==
  [][ (HandlerStep /\ req'.op = "log" /\ resp'.status = 200) =>
        /\ resp'.body.created_at = clock
        /\ \A r \in store' \ store : r.created_at = clock
        /\ req'.ext.kind = "object" =>
             \A d \in {Absent, JNull} \cup {JIso(c) : c \in 0..MaxClock} :
               finance_log(req'.text, req'.emotion, WithDate(req'.ext, d),
                           clock, nextId).rows = store' \ store ]_vars

\* an ingest whose extraction dates the expense earlier than the ingestion
C7_Witness ==
  /\ req.op = "log"
  /\ resp.status = 200
  /\ req.ext.kind = "object"
  /\ req.ext.data.created_at_iso = JIso(0)
  /\ resp.body.created_at > 0
  /\ \E r \in store : r.id = resp.body.id /\ r.created_at = resp.body.created_at

\* C8: no operation updates an existing row; a successful ingest adds
\* exactly one row and removes none, a successful delete removes exactly
\* the row with the given id and adds none, and every other operation
\* leaves the store as it was.
C8_RowsNeverMutated ==
  [][ LET added   == store' \ store
          removed == store \ store'
      IN  /\ \A r \in store' : \A q \in store : q.id = r.id => q = r
          /\ HandlerStep =>
               IF req'.op = "log" /\ resp'.status = 200
                 THEN /\ removed = {}
                      /\ Cardinality(added) = 1
                      /\ \A r \in added : record_of(r) = resp'.body
               ELSE IF req'.op = "delete" /\ resp'.status = 200
                 THEN /\ added = {}
                      /\ Cardinality(removed) = 1
                      /\ \A r \in removed : r.id = req'.id
               ELSE store' = store ]_vars

\* a successful delete that left another row of the same user in place
C8_Witness ==
  /\ req.op = "delete"
  /\ resp.status = 200
  /\ \E r \in store : r.user_id = s_default /\ r.id # req.id

\* C9: delete of an id that does not exist, or that belongs to another
\* user_id, answers 404 and leaves every row of the store unchanged.
C9_DeleteNotFound ==
  [][ ( /\ HandlerStep
        /\ req'.op = "delete"
        /\ ~\E r \in store : r.id = req'.id /\ r.user_id = s_default )
      => (resp'.status = 404 /\ store' = store) ]_vars

\* a delete of the id of another user's row, answered 404, the row in place
C9_Witness ==
  /\ req.op = "delete"
  /\ resp.status = 404
  /\ \E r \in store : r.id = req.id /\ r.user_id # s_default

\* the default user's transactions of a calendar month and of a day
InMonth(year, month) ==
  {r \in store : /\ r.user_id = s_default
                 /\ year_of(r.created_at) = year
                 /\ month_of(r.created_at) = month}

InDayOf(now) ==
  {r \in store : /\ r.user_id = s_default
                 /\ year_of(r.created_at) = year_of(now)
                 /\ month_of(r.created_at) = month_of(now)
                 /\ day_start(r.created_at) = day_start(now)}

EmptyTotals(body) ==
  /\ body.total_spent = 0
  /\ DOMAIN body.by_category = {}
  /\ body.transaction_count = 0

\* C10: a daily or monthly summary over a window without transactions has
\* total_spent 0.0, an empty per-category map, transaction_count 0 and the
\* fixed "no spending logged" insight; nothing is aggregated (no budget
\* differences on the monthly summary, no coffee figure on the daily one).
C10_EmptyWindowSummary ==
  [][ /\ ( /\ HandlerStep
           /\ req'.op = "summary_monthly"
           /\ InMonth(year_or_now(req'.year), month_or_now(req'.month)) = {} )
        => /\ resp'.status = 200
           /\ EmptyTotals(resp'.body)
           /\ resp'.body.insight.kind = "No spending logged for this month yet."
           /\ DOMAIN resp'.body.diff_by_category = {}
      /\ ( /\ HandlerStep
           /\ req'.op = "summary_daily"
           /\ InDayOf(local_now) = {} )
        => /\ resp'.status = 200
           /\ EmptyTotals(resp'.body)
           /\ resp'.body.insight.kind
                = "No spending logged yet. Try adding one thing, even if it's tiny."
           /\ resp'.body.coffee_spent = 0 ]_vars

\* a summary of an empty window while the user has rows in another window
C10_Witness ==
  /\ req.op = "summary_monthly"
  /\ InMonth(resp.body.year, resp.body.month) = {}
  /\ resp.body.transaction_count = 0
  /\ resp.body.insight.kind = "No spending logged for this month yet."
  /\ \E r \in store : r.user_id = s_default

\* C11: for each summary kind, the keys of the returned summary are the
\* same whether the window holds transactions or not: the keys of a summary
\* that was returned are those of the summary of every set of rows, the
\* empty one included.
C11_SummaryKeysFixed ==
  /\ (req.op = "summary_monthly" /\ resp.status = 200) =>
       \A rows \in SUBSET store :
         DOMAIN monthly_summary(rows, resp.body.year, resp.body.month).body
           = DOMAIN resp.body
  /\ (req.op = "summary_daily" /\ resp.status = 200) =>
       \A rows \in SUBSET store :
         DOMAIN daily_summary(rows, local_now).body = DOMAIN resp.body

\* a monthly summary of a window that holds a transaction
C11_Witness ==
  /\ req.op = "summary_monthly"
  /\ resp.status = 200
  /\ resp.body.transaction_count > 0
  /\ DOMAIN resp.body.diff_by_category # {}

\* the spend of the window's rows in category c, whatever its letter case
SpendIn(rows, c) == sum_cents({r \in rows : lower(r.category) = c})

\* C12: a monthly summary over a non-empty window has, for every budgeted
\* category c, diff_by_category[c] = monthly limit of c minus the spend in c
\* within the window, and over_under_total = sum of the limits minus the
\* total spent in the window; three food transactions totalling $45 give
\* food diff $255 and over_under_total the full budget minus $45 (when
\* nothing else was spent).
C12_BudgetDifferences ==
  [][ LET y == year_or_now(req'.year)
          m == month_or_now(req'.month)
          W == InMonth(y, m)
      IN  ( /\ HandlerStep
            /\ req'.op = "summary_monthly"
            /\ W # {} )
          => /\ resp'.status = 200
             /\ DOMAIN resp'.body.diff_by_category = DOMAIN MONTHLY_BUDGET_BY_CATEGORY
             /\ \A c \in DOMAIN MONTHLY_BUDGET_BY_CATEGORY :
                  resp'.body.diff_by_category[c]
                    = MONTHLY_BUDGET_BY_CATEGORY[c] - SpendIn(W, c)
             /\ resp'.body.over_under_total
                  = sum_values(MONTHLY_BUDGET_BY_CATEGORY) - sum_cents(W)
             /\ ( /\ Cardinality(W) = 3
                  /\ \A r \in W : r.category = s_food
                  /\ sum_cents(W) = 4500 )
                => /\ resp'.body.diff_by_category[s_food] = 25500
                   /\ resp'.body.over_under_total = 213500 - 4500 ]_vars

\* three food transactions of $15 in the month of the summary and nothing
\* else in the store
C12_Witness ==
  /\ req.op = "summary_monthly"
  /\ resp.status = 200
  /\ Cardinality(store) = 3
  /\ InMonth(resp.body.year, resp.body.month) = store
  /\ \A r \in store : r.category = s_food /\ r.amount_cents = 1500
  /\ resp.body.diff_by_category[s_food] = 25500
  /\ resp.body.over_under_total = 209000

\* the request of thread p is one the handler accepts when served alone
Accepted(p) ==
  /\ inflight[p].pc # "waiting"
  /\ finance_log(inflight[p].text, inflight[p].emotion, inflight[p].ext, 0, 0).rows # {}

\* the rows of the store that came from the request of thread p
RowsFrom(p) ==
  {r \in store : \E q \in inflight[p].rows : r = q}

\* C13: two ingests of the same user whose steps interleave in any order
\* both succeed: an accepted request is never refused or stuck, it ends
\* with status 200 and its own row in the store, the two rows have distinct
\* ids, neither overwrites the other, and two ingests of the same text
\* leave two rows.
C13_RacingIngestsBothPersist ==
  /\ \A p \in Racers :
       /\ (Accepted(p) /\ inflight[p].pc = "done") =>
            /\ inflight[p].resp.status = 200
            /\ Cardinality(RowsFrom(p)) = 1
            /\ \A r \in RowsFrom(p) :
                 /\ record_of(r) = inflight[p].resp.body
                 /\ r.raw_input = strip(inflight[p].text.s)
                 /\ \A q \in store : q.id = r.id => q = r
       /\ (Accepted(p) /\ inflight[p].pc # "done") =>
            \E q \in Racers : ENABLED (log_insert(q) \/ log_commit(q) \/ log_select(q))
  /\ (\A p \in Racers : Accepted(p) /\ inflight[p].pc = "done") =>
       /\ inflight[1].resp.body.id # inflight[2].resp.body.id
       /\ Cardinality(RowsOfUser(store)) = 2

\* the same text ingested twice: the request stamped first got the later
\* id, and both rows are in the store
C13_Witness ==
  /\ \A p \in Racers : inflight[p].pc = "done" /\ inflight[p].resp.status = 200
  /\ inflight[1].text = inflight[2].text
  /\ inflight[1].ext = inflight[2].ext
  /\ inflight[1].resp.body.created_at < inflight[2].resp.body.created_at
  /\ inflight[1].resp.body.id > inflight[2].resp.body.id
  /\ Cardinality(RowsOfUser(store)) = 2

\* C14: the raw_input stored for a transaction and returned by ingest is
\* the text passed by the caller, character for character, leading and
\* trailing whitespace included.
C14_RawInputVerbatim ==
  (req.op = "log" /\ resp.status = 200) =>
    /\ resp.body.raw_input = req.text.s
    /\ \A r \in store : r.id = resp.body.id => r.raw_input = req.text.s

\* C15: when the persistence step of an ingest fails, the caller gets a
\* failure and never a success record: a request answered 200 has its row
\* in the store, and an accepted request that left no row is answered with
\* an error 500.  save_reflection, unlike it, answers ok whether or not its
\* insert raised.
C15_PersistenceFailureSurfaced ==
  /\ \A p \in Racers : inflight[p].pc = "done" =>
       /\ inflight[p].resp.status = 200 =>
            /\ Cardinality(RowsFrom(p)) = 1
            /\ \A r \in RowsFrom(p) : record_of(r) = inflight[p].resp.body
       /\ (Accepted(p) /\ RowsFrom(p) = {}) =>
            /\ inflight[p].resp.status = 500
            /\ inflight[p].resp.kind = "error"
  /\ req.op = "reflect" => resp.status = 200 /\ resp.body.ok

\* an accepted ingest whose database call raised: error 500 and no row of
\* the user in the store; and a save_reflection that answered ok with
\* nothing saved
C15_Witness ==
  /\ inflight[1].pc = "done"
  /\ Accepted(1)
  /\ inflight[1].resp = Unhandled
  /\ RowsOfUser(store) = {}
  /\ req.op = "reflect"
  /\ resp.body.ok
  /\ reflections = 0
  /\ conversations = {}
  /\ convSeq = 1
  /\ messages = {}
  /\ msgSeq = 1
  /\ reading = [p \in Readers |-> NotReading]
  /\ config = OpenConfig
  /\ authorization = JNull

\* C16: ids are assigned by the store and unique over the whole history:
\* the id of every new row is above the id of every row the table holds and
\* not below the sequence, the sequence only grows and stays above every id
\* issued, so no two rows ever created share an id and an id freed by a
\* delete is not given again.
C16_IdsNeverReused ==
  [][ /\ nextId' >= nextId
      /\ \A r \in store' : r.id < nextId'
      /\ \A r \in store' \ store :
           /\ r.id >= nextId
           /\ \A q \in store : q.id < r.id ]_vars

\* an ingest after the row with the latest id was deleted: the new row has
\* the id after the freed one
C16_Witness ==
  /\ req.op = "log"
  /\ resp.status = 200
  /\ resp.body.id >= 2
  /\ \E r \in store : r.id = resp.body.id
  /\ ~\E r \in store : r.id = resp.body.id - 1

\* the resolved amount of the last ingest, in mills
ResolvedMills == resolved_amount(parsed.data).n

\* the nearest cent to m mills, a tie going to the even cent
NearestEvenCent(m) ==
  CHOOSE c \in 0..(m \div 10 + 1) :
    \A d \in 0..(m \div 10 + 1) :
      \/ (IF 10 * c > m THEN 10 * c - m ELSE m - 10 * c)
           < (IF 10 * d > m THEN 10 * d - m ELSE m - 10 * d)
      \/ /\ (IF 10 * c > m THEN 10 * c - m ELSE m - 10 * c)
              = (IF 10 * d > m THEN 10 * d - m ELSE m - 10 * d)
         /\ (c = d \/ c % 2 = 0)

CategoryFor(t) == parse_transaction_input(t, req.ext, 0).data.category

\* C18: the category produced by the keyword rules does not depend on the
\* letter case of the raw text: the text of a request, its lower-case form
\* and its upper-case form get the same category with the same extracted
\* record; "UBER to airport" and "uber to airport" both get "transport".
C18_CategoryIgnoresCase ==
  (req.op = "log" /\ parsed.called /\ ~parsed.raised) =>
    LET t == strip(req.text.s)
    IN  /\ parsed.data.category = CategoryFor(lower(t))
        /\ parsed.data.category = CategoryFor(upper(t))
        /\ lower(t) = t_uber_airport => parsed.data.category = JStr(s_transport)

\* the text the rules read in the last request
RuleText == lower(strip(req.text.s))

\* C19 as stated: a raw text that matches a coffee keyword or a groceries
\* keyword is never given category "food" by normalization, whatever other
\* rule keywords it also contains.
C19_FoodNeverOverCoffeeGroceries ==
  ( /\ req.op = "log" /\ parsed.called /\ ~parsed.raised
    /\ \/ any_in(coffee_keywords, RuleText)
       \/ any_in(grocery_keywords, RuleText) )
  => parsed.data.category # JStr(s_food)

\* C19 as amended: the food rule does not override coffee or groceries: a
\* raw text that matches a coffee keyword or a groceries keyword is not
\* given category "food", unless it also matches a keyword of a rule that
\* is evaluated after that rule and before the food rule (transport,
\* subscriptions, rent, college after coffee; subscriptions, rent, college
\* after groceries), whose category the food rule does replace.
C19_FoodNotOverStandingCoffeeGroceries ==
  ( /\ req.op = "log" /\ parsed.called /\ ~parsed.raised
    /\ \/ /\ any_in(coffee_keywords, RuleText)
          /\ ~any_in(transport_keywords \cup subscription_keywords
                       \cup rent_keywords \cup college_keywords, RuleText)
       \/ /\ any_in(grocery_keywords, RuleText)
          /\ ~any_in(subscription_keywords \cup rent_keywords
                       \cup college_keywords, RuleText) )
  => parsed.data.category \in {JStr(s_coffee), JStr(s_groceries)}

\* "latte pizza": a coffee keyword and a food keyword, category coffee
C19_Witness ==
  /\ req.op = "log"
  /\ req.text = JStr(w_latte \o <<" ">> \o w_pizza)
  /\ parsed.called
  /\ parsed.data.category = JStr(s_coffee)

\* items are in ascending (descending) order of created_at
Ascending(items) ==
  \A i \in 1..Len(items) : \A j \in i..Len(items) :
    items[i].created_at <= items[j].created_at

Descending(items) ==
  \A i \in 1..Len(items) : \A j \in i..Len(items) :
    items[i].created_at >= items[j].created_at

\* items are the records of the rows, each once
ListsExactly(items, rows) ==
  /\ Len(items) = Cardinality(rows)
  /\ \A r \in rows : \E i \in 1..Len(items) : items[i] = record_of(r)

\* C20: the month listing returns the window's transactions ordered by
\* created_at ascending, and the today listing returns transactions of
\* today, each once, ordered by created_at descending, for every store
\* content.
C20_ListingOrder ==
  [][ /\ (HandlerStep /\ req'.op = "month") =>
           /\ resp'.status = 200
           /\ Ascending(resp'.body.items)
           /\ ListsExactly(resp'.body.items,
                           InMonth(year_or_now(req'.year), month_or_now(req'.month)))
      /\ (HandlerStep /\ req'.op = "today") =>
           /\ resp'.status = 200
           /\ Descending(resp'.body)
           /\ \E rows \in SUBSET InDayOf(local_now) : ListsExactly(resp'.body, rows) ]_vars

\* a today listing of two transactions, the later one first, and a month
\* of the store that holds transactions of different times
C20_Witness ==
  /\ req.op = "today"
  /\ resp.status = 200
  /\ Len(resp.body) >= 2
  /\ resp.body[1].created_at > resp.body[2].created_at
  /\ resp.body[1].id > resp.body[2].id

\* C21: the self-test leaves no test artifacts: after api_selftest returns,
\* on every path including a failing chat step, the conversation it created
\* and that conversation's messages are no longer in the store.
C21_SelftestLeavesNoArtifacts ==
  [][ (resp'.kind = "selftest" /\ convSeq' = convSeq + 1) =>
        /\ \A c \in conversations' : c.id # convSeq
        /\ \A m \in messages' : m.conversation_id # convSeq ]_vars

\* the rules before the food rule as (keywords, target), in the order coffee,
\* transport, groceries, subscriptions, rent, college
RuleTable ==
  << <<coffee_keywords, s_coffee>>, <<transport_keywords, s_transport>>,
     <<grocery_keywords, s_groceries>>, <<subscription_keywords, s_subscriptions>>,
     <<rent_keywords, s_rent>>, <<college_keywords, s_college>> >>

\* the rules whose keywords the text matches
Matching(text) == {i \in 1..Len(RuleTable) : any_in(RuleTable[i][1], text)}

\* the category extracted for the last request, before the rules
Extracted ==
  IF req.ext.kind = "error" THEN JStr(s_other)
  ELSE IF req.ext.data.category = Absent \/ ~truthy(req.ext.data.category)
    THEN JStr(s_other)
    ELSE req.ext.data.category

\* the category after the rules coffee..college, of which those in m match
BeforeFood(m) ==
  IF m = {} THEN Extracted
  ELSE JStr(RuleTable[CHOOSE i \in m : \A j \in m : j <= i][2])

\* the category after the food rule, c being the category before it
AfterFood(c, text) ==
  IF any_in(food_keywords, text) /\ c \notin {JStr(s_coffee), JStr(s_groceries)}
    THEN JStr(s_food)
    ELSE c

\* C22: the keyword rules are evaluated in the fixed order coffee, transport,
\* groceries, subscriptions, rent, college, food: the category is the target
\* of the last matching rule among coffee..college; the food rule then sets
\* "food" only if a food keyword matches and the category at that point is
\* neither coffee nor groceries; when no rule matches, the extracted
\* category is left unchanged.
C22_RulesInFixedOrder ==
  (req.op = "log" /\ parsed.called /\ ~parsed.raised) =>
    parsed.data.category = AfterFood(BeforeFood(Matching(RuleText)), RuleText)

\* "rent UBER latte": the rules coffee, transport and rent match, the text
\* names them in the opposite order, and the category is rent
C22_Witness ==
  /\ req.op = "log"
  /\ req.text = JStr(w_rent \o <<" ">> \o w_UBER \o <<" ">> \o w_latte)
  /\ parsed.called
  /\ Matching(RuleText) = {1, 2, 5}
  /\ parsed.data.category = JStr(s_rent)

\* the month after (year, month): month 12 rolls over to January of year + 1
MonthAfter(year, month) == IF month = 12 THEN <<year + 1, 1>> ELSE <<year, month + 1>>

\* the default user's transactions with
\* first-of-month 00:00 <= created_at < first-of-next-month 00:00
Window(year, month) ==
  {r \in store :
     /\ r.user_id = s_default
     /\ first_of_month(year, month) <= r.created_at
     /\ r.created_at < first_of_month(MonthAfter(year, month)[1], MonthAfter(year, month)[2])}

\* the months the transactions of a behaviour can fall in, and their neighbours
MonthsAround == { <<2024, 11>>, <<2024, 12>>, <<2025, 1>>, <<2025, 2>> }

\* the body of a month listing or monthly summary selects exactly rows w
MonthSelects(op, body, w) ==
  IF op = "month" THEN ListsExactly(body.items, w)
  ELSE /\ body.transaction_count = Cardinality(w)
       /\ body.total_spent = sum_cents(w)

\* C23: for every (year, month), the monthly listing and the monthly summary
\* select exactly the user's transactions with first-of-month 00:00 <=
\* created_at < first-of-next-month 00:00, month 12 rolling over to January
\* of year + 1; the window is half-open, so every transaction falls in
\* exactly one month window.
C23_MonthWindowHalfOpen ==
  [][ (HandlerStep /\ req'.op \in {"month", "summary_monthly"}) =>
        /\ MonthSelects(req'.op, resp'.body,
                        Window(year_or_now(req'.year), month_or_now(req'.month)))
        /\ \A r \in RowsOfUser(store) :
             Cardinality({ym \in MonthsAround : r \in Window(ym[1], ym[2])}) = 1
    ]_vars

\* the listing of December 2024 over a store that holds a transaction of
\* the first instant of January 2025: December's rows only
C23_Witness ==
  /\ req.op = "month"
  /\ req.year = JInt(2024) /\ req.month = JInt(12)
  /\ \E r \in store : r.created_at = first_of_month(2025, 1)
  /\ \E r \in store : r.created_at = first_of_month(2025, 1) - 1
  /\ Len(resp.body.items) = 1
  /\ resp.body.items[1].created_at = first_of_month(2025, 1) - 1

\* the category a row is counted in: "other" when it has none
CountedIn(r) == IF r.category = <<>> THEN s_other ELSE lower(r.category)

\* the figures of a summary body describe the rows w
Totals(body, w) ==
  /\ body.transaction_count = Cardinality(w)
  /\ body.total_spent = sum_cents(w)
  /\ sum_values(body.by_category) = body.total_spent
  /\ DOMAIN body.by_category = {CountedIn(r) : r \in w}
  /\ \A c \in DOMAIN body.by_category :
       body.by_category[c] = sum_cents({r \in w : CountedIn(r) = c})

\* C24: in every daily and monthly summary, total_spent is the sum of
\* amount_cents of the rows in the window (divided by 100), the per-category
\* totals add up to total_spent, every row is counted in exactly one
\* category (a missing category counts as "other"), and transaction_count
\* is the number of rows in the window.
C24_SummaryTotals ==
  [][ /\ (HandlerStep /\ req'.op = "summary_monthly") =>
           /\ resp'.status = 200
           /\ Totals(resp'.body, Window(year_or_now(req'.year), month_or_now(req'.month)))
      /\ (HandlerStep /\ req'.op = "summary_daily") =>
           /\ resp'.status = 200
           /\ \E w \in SUBSET InDayOf(local_now) : Totals(resp'.body, w) ]_vars

\* a summary of three rows: two coffees counted together, and a row without
\* category counted as "other"
C24_Witness ==
  /\ req.op \in {"summary_monthly", "summary_daily"}
  /\ resp.status = 200
  /\ resp.body.transaction_count = 3
  /\ DOMAIN resp.body.by_category = {s_coffee, s_other}
  /\ resp.body.by_category[s_coffee] = 246
  /\ resp.body.by_category[s_other] = 700
  /\ resp.body.total_spent = 946

\* C25: the monthly insight over a non-empty window is the "over budget by
\* $X" message exactly when over_under_total < 0 and the "under budget by
\* $X" message otherwise (over_under_total = 0 included), X being
\* |over_under_total|, the difference between the sum of the limits and the
\* spend of the window.
C25_MonthlyInsight ==
  [][ LET spent == sum_cents(Window(year_or_now(req'.year), month_or_now(req'.month)))
          limit == sum_values(MONTHLY_BUDGET_BY_CATEGORY)
      IN  ( /\ HandlerStep
            /\ req'.op = "summary_monthly"
            /\ Window(year_or_now(req'.year), month_or_now(req'.month)) # {} )
          => /\ resp'.body.over_under_total = limit - spent
             /\ resp'.body.insight.kind =
                  IF limit - spent < 0 THEN "over budget" ELSE "under budget"
             /\ resp'.body.insight.x =
                  IF limit - spent < 0 THEN spent - limit ELSE limit - spent ]_vars

\* a month whose spend is exactly the budget: under budget by $0.00; and one
\* cent more would be reported as over budget
C25_Witness ==
  /\ req.op = "summary_monthly"
  /\ resp.status = 200
  /\ resp.body.transaction_count = 1
  /\ resp.body.total_spent = 213500
  /\ resp.body.over_under_total = 0
  /\ resp.body.insight.kind = "under budget"
  /\ resp.body.insight.x = 0

\* C26: the daily insight over a non-empty window is the ratio-flagging
\* message when coffee spend > 0 and coffee spend / total spend > 0.30, the
\* fixed "no coffee logged" message when coffee spend is 0, and the neutral
\* message when coffee spend > 0 and the ratio is <= 0.30: a ratio of
\* exactly 0.30 is neutral.
C26_DailyInsight ==
  ( /\ req.op = "summary_daily"
    /\ resp.status = 200
    /\ resp.body.transaction_count > 0 )
  => resp.body.insight.kind =
       IF resp.body.coffee_spent = 0
         THEN "No coffee logged today."
       ELSE IF 10 * resp.body.coffee_spent > 3 * resp.body.total_spent
         THEN "Coffee is {ratio} of your spending today."
         ELSE "Your coffee spending is present but not dominating today."

\* the handlers that list or summarise
ReadOps == {"month", "today", "summary_monthly", "summary_daily"}

\* C27: listing and summary operations never insert, change or delete a
\* transaction row and never change the budget configuration, and a summary
\* is a function of the window's rows and the budget only: two summary calls
\* for the same window over the same rows, at whatever times, return the
\* same result, and rows outside the window do not change it.
C27_ReadsArePure ==
  [][ /\ (HandlerStep /\ req'.op \in ReadOps) =>
           /\ store' = store
           /\ nextId' = nextId
      /\ (HandlerStep /\ req'.op = "summary_monthly") =>
           /\ resp'.body.budget_by_category = MONTHLY_BUDGET_BY_CATEGORY
           /\ (req'.year # JNull /\ req'.month # JNull) =>
                /\ req = req' => resp' = resp
                /\ resp' = monthly_summary(
                             month_rows(Window(req'.year.n, req'.month.n),
                                        req'.year.n, req'.month.n),
                             req'.year.n, req'.month.n)
      /\ (HandlerStep /\ req'.op = "summary_daily") =>
           /\ (req = req' /\ resp.body.from_date = day_start(local_now)) => resp' = resp
           /\ resp' = daily_summary(today_rows(InDayOf(local_now), local_now), local_now)
    ]_vars

\* the summary of December 2024 asked for in January 2025, over a store with
\* transactions of both months
C27_Witness ==
  /\ req.op = "summary_monthly"
  /\ req.year = JInt(2024) /\ req.month = JInt(12)
  /\ year_of(local_now) = 2025
  /\ resp.status = 200
  /\ resp.body.transaction_count > 0
  /\ resp.body.transaction_count < Cardinality(store)

\* the rows of the default user committed to the table that lie in the
\* window of the summary of thread p
CommittedInWindow(p) ==
  IF reading[p].op = "summary_monthly"
    THEN Window(reading[p].year, reading[p].month)
    ELSE {r \in InDayOf(reading[p].now) : r.created_at < day_end(reading[p].now)}

\* C28: a summary that runs concurrently with ingests and deletes reflects
\* each in-flight transaction completely or not at all: its SELECT reads
\* exactly the committed rows of the window, and total_spent, the
\* per-category totals and transaction_count of the summary all describe
\* that one set of rows, whatever is inserted, committed or deleted before
\* it returns.
C28_SummaryOfOneCommittedSet ==
  [][ \A p \in Readers :
        /\ (reading[p].pc = "started" /\ reading'[p].pc = "fetched") =>
             reading'[p].rows = CommittedInWindow(p)
        /\ (reading[p].pc = "fetched" /\ reading'[p].pc = "done") =>
             /\ reading'[p].resp.status = 200
             /\ Totals(reading'[p].resp.body, reading[p].rows) ]_vars

\* a summary that returns the figures of the one row committed before its
\* SELECT while the table holds a second row, committed before it returned
C28_Witness ==
  \E p \in Readers :
    /\ reading[p].pc = "done"
    /\ reading[p].resp.body.transaction_count = 1
    /\ reading[p].resp.body.total_spent = sum_cents(reading[p].rows)
    /\ Cardinality(RowsOfUser(store)) = 2
    /\ reading[p].rows \subseteq store

\* the default user's transactions ingested on the local calendar day of
\* now: created_at is the UTC time of the ingestion, tz later on the
\* machine's clock
IngestedOnLocalDayOf(now) ==
  {r \in RowsOfUser(store) : day_start(r.created_at + tz) = day_start(now)}

\* C29: a transaction stored by a successful ingest is included in the daily
\* summary and in the today listing requested afterwards on the same local
\* calendar day, for every time-zone offset of the machine.
C29_IngestedTodayIsListed ==
  [][ /\ (HandlerStep /\ req'.op = "today") =>
           \A r \in IngestedOnLocalDayOf(local_now) :
             \E i \in 1..Len(resp'.body) : resp'.body[i].id = r.id
      /\ (HandlerStep /\ req'.op = "summary_daily") =>
           resp'.body.transaction_count >= Cardinality(IngestedOnLocalDayOf(local_now))
    ]_vars


\* the key is enforced: ENFORCE_API_KEY is true and API_KEY is not empty
Enforced == config.enforce /\ config.api_key # <<>>

\* the header is missing or is not a Bearer header
NotBearer ==
  \/ authorization = JNull
  \/ Len(authorization.s) < 7
  \/ SubSeq(authorization.s, 1, 7) # <<"B", "e", "a", "r", "e", "r", " ">>

\* the header is "Bearer <API_KEY>"
ExactBearer ==
  authorization = JStr(<<"B", "e", "a", "r", "e", "r", " ">> \o config.api_key)

\* the header is "Bearer " followed by API_KEY with any whitespace around it
TokenBearer ==
  /\ ~NotBearer
  /\ strip(SubSeq(authorization.s, 8, Len(authorization.s))) = config.api_key

\* the step answers with the status and neither reads nor writes the store:
\* the response is the error alone, the rows and the sequence are untouched
Refused(status) ==
  /\ resp'.kind = "error"
  /\ resp'.status = status
  /\ parsed' = NoParse
  /\ store' = store
  /\ nextId' = nextId

\* the step is the handler's own: its response is none of the key errors
Served == ~(resp'.kind = "error" /\ resp'.status \in {401, 403})

KeyChecked(accepted) ==
  /\ (Enforced /\ NotBearer) => Refused(401)
  /\ (Enforced /\ ~NotBearer /\ ~accepted) => Refused(403)
  /\ (Enforced /\ accepted) => Served
  /\ ~Enforced => Served

=============================================================================
